---- MODULE Spec2Model ----
(***************************************************************************)
(* Model of server/pdf/parse_pdf.py (BetTrackerPro surebet slip parser).   *)
(*                                                                         *)
(* Three state machines share the module:                                  *)
(*   Spec      - main() and the Record Assembler extrair_dados_pdf: the    *)
(*               page loop, the per-page extraction stages, the slot       *)
(*               mapping, the stop decision and both exception handlers.   *)
(*   SpecCasa  - the House Detector detectar_casa_apostas applied to a     *)
(*               line drawn from a bounded set of lines.                   *)
(*   SpecLinhas- the Line Reassembler preprocessar_linhas_quebradas        *)
(*               applied to a bounded page text.                           *)
(*                                                                         *)
(* Python values: None is the empty tuple << >>, any other value v is the  *)
(* one-element tuple <<v>>.  Decimal numbers are integers in thousandths   *)
(* (1.85 is 185).  Text is a TLA+ string; characters are one-character     *)
(* strings obtained with SubSeq.                                           *)
(***************************************************************************)
EXTENDS Integers, Sequences, FiniteSets, TLC

VARIABLES
    pc,                   \* position in main() / extrair_dados_pdf
    argc,                 \* len(sys.argv)
    doc_ok,               \* FALSE: pdfplumber.open raises (bad path, corrupt file)
    npages,               \* len(pdf.pages)
    pagina,               \* 1-based index of the page the loop is at (0: none yet)
    dados,                \* the record under construction
    indice_times,         \* index of the line holding both team names, -1 if none
    apostas_encontradas,  \* valid legs found on the current page, in detection order
    ret,                  \* value returned by extrair_dados_pdf
    stdout,               \* JSON object written to standard output
    exit_code,            \* process exit status
    hist,                 \* history: one entry per page read so far
    detectadas,           \* history: the first three valid legs, in document order
    escrito,              \* history: last value assigned to every field of dados
    erro,                 \* history: where an exception was raised ("" if none)
    fase,                 \* position of the function under study ("" under Spec)
    linha_entrada,        \* SpecCasa: the line given to detectar_casa_apostas
    casa_detectada,       \* SpecCasa: the value it returned
    texto_bruto,          \* SpecLinhas: the page text given to the reassembler
    primeira_passagem,    \* SpecLinhas: preprocessar_linhas_quebradas(texto_bruto)
    segunda_passagem,     \* SpecLinhas: the reassembler applied to its own output
    lines_pagina,         \* SpecLaco: lines, the raw lines of the page text
    i_laco,               \* SpecLaco: i of the reassembler's loop, counted from 1
    lines_processadas,    \* SpecLaco: the logical lines emitted so far
    origem,               \* SpecLaco, history: raw index at which each emitted line starts
    texto_processado,     \* SpecLaco: the text returned
    texto_leg,            \* SpecExt: texto_aposta given to processar_aposta_completa
    casa_leg,             \* SpecExt: casa_aposta given to it
    aposta_extraida,      \* SpecExt: the dict it returned
    linhas,               \* SpecSeg: the lines of the page read so far
    fim_pagina,           \* SpecSeg: TRUE when linhas is the whole page
    i_seg,                \* SpecSeg: i of the segmenter's loop, counted from 1
    j_seg,                \* SpecSeg: j of the segmenter's inner loops
    casa_encontrada,      \* SpecSeg: the house of the leg being collected
    texto_coletado,       \* SpecSeg: texto_aposta of the leg being collected
    fragmentos_casa,      \* SpecSeg: fragments of the house name taken in phase A
    linhas_usadas_fragmentos,    \* SpecSeg: indices of the lines used as fragments
    linhas_parcialmente_usadas,  \* SpecSeg: pairs <<index, rest of the line>>
    linhas_do_corpo,      \* SpecSeg, history: indices of the lines appended in phase B
    entregues,            \* SpecSeg, history: the <<text, house>> given to the extractor
    apostas_pagina        \* SpecSeg: apostas_encontradas of the page

asmVars == <<pc, argc, doc_ok, npages, pagina, dados, indice_times,
             apostas_encontradas, ret, stdout, exit_code, hist, detectadas,
             escrito, erro>>

casaVars == <<linha_entrada, casa_detectada>>

linhasVars == <<texto_bruto, primeira_passagem, segunda_passagem>>

lacoVars == <<lines_pagina, i_laco, lines_processadas, origem, texto_processado>>

extVars == <<texto_leg, casa_leg, aposta_extraida>>

segVars == <<linhas, fim_pagina, i_seg, j_seg, casa_encontrada, texto_coletado,
             fragmentos_casa, linhas_usadas_fragmentos, linhas_parcialmente_usadas,
             linhas_do_corpo, entregues, apostas_pagina>>

\* The variables of the functions studied step by step.
passoVars == <<lacoVars, extVars, segVars>>

\* The variables main() and extrair_dados_pdf leave alone.
foraDoAsm == <<fase, casaVars, linhasVars, passoVars>>

vars == <<asmVars, fase, casaVars, linhasVars, passoVars>>

(***************************************************************************)
(* Bounds of the model.                                                    *)
(***************************************************************************)
MaxPages == 3        \* pages of a document
MaxCand  == 3        \* candidate legs the segmenter finds on one page

(***************************************************************************)
(* Python values.                                                          *)
(***************************************************************************)
None == << >>
Some(v) == <<v>>
Val(o) == o[1]

\* Python truthiness of an optional string / an optional number.
TruthyStr(o) == o # None /\ Val(o) # ""
TruthyNum(o) == o # None /\ Val(o) # 0

Min(a, b) == IF a < b THEN a ELSE b

(***************************************************************************)
(* The record of extrair_dados_pdf.                                        *)
(***************************************************************************)
BetKeys == {"house", "odd", "type", "stake", "profit"}
DadosKeys == {"date", "sport", "league", "teamA", "teamB",
              "bet1", "bet2", "bet3", "profitPercentage"}

bet_vazia == [house |-> None, odd |-> None, type |-> None,
              stake |-> None, profit |-> None]

dados_inicial ==
    [date |-> None, sport |-> None, league |-> None,
     teamA |-> None, teamB |-> None,
     bet1 |-> bet_vazia, bet2 |-> bet_vazia, bet3 |-> bet_vazia,
     profitPercentage |-> None]

\* The failure object of main(): no bet3 key.
dados_vazio ==
    [date |-> None, sport |-> None, league |-> None,
     teamA |-> None, teamB |-> None,
     bet1 |-> bet_vazia, bet2 |-> bet_vazia,
     profitPercentage |-> None]

\* dict.update: every key of src overwrites the key of dst.
DictUpdate(dst, src) ==
    [k \in DOMAIN dst \cup DOMAIN src |->
        IF k \in DOMAIN src THEN src[k] ELSE dst[k]]

(***************************************************************************)
(* Inputs: what the text of a page can make each extraction stage find.    *)
(***************************************************************************)
\* The header lines of a page, as the searches of lines 116-209 see them:
\*   evento   - the date of the first event line (None: no line, or no date in it)
\*   times    - for the first team line, the two sides of the en-dash (either
\*              may be empty, as in "- Palmeiras 3.50%") and the trailing
\*              percentage (None when the line does not end in one)
\*   anterior - a line of the page holds both team names found on page 1
\*   esporte  - the first " / " line that names a known sport
\*   generica - a " / " line that passes the generic rule of lines 186-206
SemCabecalho ==
    [evento |-> None, times |-> None, anterior |-> FALSE,
     esporte |-> None, generica |-> None]
CabecalhoCompleto ==
    [evento |-> Some("2024-03-10T16:00"),
     times |-> Some(<<"Flamengo", "Palmeiras", Some(3500)>>), anterior |-> TRUE,
     esporte |-> Some(<<"Futebol", "Brasil / Serie A">>), generica |-> None]
CabecalhoSemTimeA ==
    [evento |-> None,
     times |-> Some(<<"", "Palmeiras", Some(4100)>>), anterior |-> FALSE,
     esporte |-> None, generica |-> Some(<<"Dardos", "PDC">>)]
CabecalhoSemTimeB ==
    [evento |-> None,
     times |-> Some(<<"Flamengo", "", None>>), anterior |-> FALSE,
     esporte |-> None, generica |-> Some(<<"Dardos", "PDC">>)]
CabecalhoGenerico ==
    [evento |-> None,
     times |-> None, anterior |-> TRUE,
     esporte |-> None, generica |-> Some(<<"Dardos", "PDC">>)]
Cabecalhos == {SemCabecalho, CabecalhoCompleto, CabecalhoSemTimeA,
               CabecalhoSemTimeB, CabecalhoGenerico}

\* Results of processar_aposta_completa for the candidate legs of a page:
\* house is always the detected house; odd, type, stake, profit may be None;
\* odd is 0.0 when the only decimal of the descriptive part is 0.00.
ApostaA == [house |-> Some("Pinnacle"), odd |-> Some(1850),
            type |-> Some("Mais de 2.5 gols"), stake |-> Some(50000), profit |-> Some(9250)]
ApostaB == [house |-> Some("KTO (BR)"), odd |-> Some(2100),
            type |-> None, stake |-> Some(100000), profit |-> None]
ApostaSemOdd == [house |-> Some("Betano"), odd |-> None,
                 type |-> Some("Empate"), stake |-> None, profit |-> None]
ApostaOddZero == [house |-> Some("Betano"), odd |-> Some(0),
                  type |-> None, stake |-> None, profit |-> None]
Candidatas == {ApostaA, ApostaB, ApostaSemOdd, ApostaOddZero}

SeqsUpTo(S, n) == UNION {[1..k -> S] : k \in 0..n}

\* Mutant of ApostaValida: a leg with a house is kept whatever its odd.
ApostaValidaSoCasa(aposta) == TruthyStr(aposta.house)

\* Line 359: `if aposta and aposta['house'] and aposta['odd']`.
ApostaValida(aposta) == TruthyStr(aposta.house) /\ TruthyNum(aposta.odd)

(***************************************************************************)
(* History variables.                                                      *)
(***************************************************************************)
\* One entry per page read: texto is "vazio" (extract_text gave nothing) or
\* "ok"; excecao tells that reading or processing the page raised; times that
\* the page gave both team names; validas holds, per candidate leg of the page
\* in detection order, whether it passed line 359; pronto tells that the page
\* reached the stop decision.
PaginaLida(t) ==
    [texto |-> IF t = "vazio" THEN "vazio" ELSE "ok", excecao |-> (t = "erro"),
     times |-> FALSE, validas |-> << >>, pronto |-> FALSE]

Prefixo(seq, n) == SubSeq(seq, 1, Min(n, Len(seq)))

Caminhos == {<<f>> : f \in {"date", "sport", "league", "teamA", "teamB", "profitPercentage"}}
            \cup {<<b, k>> : b \in {"bet1", "bet2", "bet3"}, k \in BetKeys}

\* The value the record holds at a path.
Campo(d, c) == IF Len(c) = 2 THEN d[c[1]][c[2]] ELSE d[c[1]]

\* escrito after assigning value v to the plain field f.
Anota(e, f, v) == [e EXCEPT ![<<f>>] = v]
\* escrito after bet slot b was updated from aposta.
AnotaBet(e, b, aposta) ==
    [c \in Caminhos |-> IF Len(c) = 2 /\ c[1] = b /\ c[2] \in DOMAIN aposta
                        THEN aposta[c[2]] ELSE e[c]]

(***************************************************************************)
(* Initial state: the process has started, main() has not run yet.         *)
(***************************************************************************)
\* The variables of the reassembler's loop while another function is under
\* study.
LacoParado ==
    /\ lines_pagina = << >> /\ i_laco = 0 /\ lines_processadas = << >>
    /\ origem = << >> /\ texto_processado = None

\* The variables of the Field Extractor while another function is under study.
ExtParado == texto_leg = "" /\ casa_leg = "" /\ aposta_extraida = << >>

\* The variables of the Bet Segmenter while another function is under study.
SegParado ==
    /\ linhas = << >> /\ fim_pagina = FALSE /\ i_seg = 0 /\ j_seg = 0
    /\ casa_encontrada = "" /\ texto_coletado = "" /\ fragmentos_casa = << >>
    /\ linhas_usadas_fragmentos = {} /\ linhas_parcialmente_usadas = {}
    /\ linhas_do_corpo = {} /\ entregues = << >> /\ apostas_pagina = << >>

PassosParados == LacoParado /\ ExtParado /\ SegParado

Init ==
    /\ pc = "main"
    /\ argc \in 1..3
    /\ doc_ok \in BOOLEAN
    /\ npages \in 0..MaxPages
    /\ pagina = 0
    /\ dados = dados_inicial
    /\ indice_times = -1
    /\ apostas_encontradas = << >>
    /\ ret = None
    /\ stdout = None
    /\ exit_code = -1
    /\ hist = << >>
    /\ detectadas = << >>
    /\ escrito = [c \in Caminhos |-> None]
    /\ erro = ""
    /\ fase = ""
    /\ linha_entrada = ""
    /\ casa_detectada = None
    /\ texto_bruto = ""
    /\ primeira_passagem = None
    /\ segunda_passagem = None
    /\ PassosParados

(***************************************************************************)
(* main(), lines 792-817.                                                  *)
(***************************************************************************)
\* Lines 793-795: wrong number of arguments.
MainUso ==
    /\ UNCHANGED foraDoAsm
    /\ pc = "main"
    /\ argc # 2
    /\ exit_code' = 1
    /\ pc' = "exit"
    /\ UNCHANGED <<argc, doc_ok, npages, pagina, dados, indice_times,
                   apostas_encontradas, ret, stdout, hist, detectadas, escrito, erro>>

\* Lines 797-800 and 71-99: extrair_dados_pdf is entered, dados is built.
MainChama ==
    /\ UNCHANGED foraDoAsm
    /\ pc = "main"
    /\ argc = 2
    /\ dados' = dados_inicial
    /\ pc' = "open"
    /\ UNCHANGED <<argc, doc_ok, npages, pagina, indice_times,
                   apostas_encontradas, ret, stdout, exit_code, hist, detectadas, escrito, erro>>

(***************************************************************************)
(* extrair_dados_pdf, lines 101-390.                                       *)
(***************************************************************************)
\* Line 102: pdfplumber.open; an unreadable document raises inside the try.
AbrePdf ==
    /\ UNCHANGED foraDoAsm
    /\ pc = "open"
    /\ IF doc_ok
       THEN pc' = "loop" /\ erro' = erro
       ELSE pc' = "except" /\ erro' = "open"
    /\ UNCHANGED <<argc, doc_ok, npages, pagina, dados, indice_times,
                   apostas_encontradas, ret, stdout, exit_code, hist, detectadas, escrito>>

\* Line 390: the function returns dados; its locals end with the call.
Retorna(d) ==
    /\ ret' = Some(d)
    /\ pc' = "print"
    /\ pagina' = 0
    /\ indice_times' = -1
    /\ apostas_encontradas' = << >>

\* The slice pdf.pages[:2] of line 103.
PaginasNoLaco == Min(2, npages)

\* Lines 103-106: the loop header takes the next page of pdf.pages[:2] and
\* extracts its text; an empty text skips the page.
ProximaPagina ==
    /\ UNCHANGED foraDoAsm
    /\ pc = "loop"
    /\ pagina < PaginasNoLaco
    /\ pagina' = pagina + 1
    /\ \E t \in {"ok", "vazio", "erro"} :
         /\ hist' = Append(hist, PaginaLida(t))
         /\ UNCHANGED detectadas
         /\ pc' = CASE t = "ok" -> "cab"
                    [] t = "vazio" -> "loop"
                    [] t = "erro" -> "except"
         /\ erro' = IF t = "erro" THEN "pagina" ELSE erro
    /\ UNCHANGED <<argc, doc_ok, npages, dados, indice_times,
                   apostas_encontradas, ret, stdout, exit_code, escrito>>

\* Lines 103 and 390: no page is left in the slice; the function returns.
FimDasPaginas ==
    /\ UNCHANGED foraDoAsm
    /\ pc = "loop"
    /\ pagina >= PaginasNoLaco
    /\ Retorna(dados)
    /\ UNCHANGED <<argc, doc_ok, npages, dados, stdout, exit_code, hist, detectadas, escrito, erro>>

\* Lines 116-126: the date is assigned only when an event line parses.
ComData(d, cab) == IF cab.evento # None THEN [d EXCEPT !.date = cab.evento] ELSE d

\* Lines 129-145: the first team line gives profitPercentage (when it ends in
\* a percentage) and both team names; without such a line nothing is assigned.
ComTimes(d, cab) ==
    IF cab.times = None THEN d
    ELSE LET t == Val(cab.times)
             d1 == IF t[3] # None THEN [d EXCEPT !.profitPercentage = t[3]] ELSE d
         IN [d1 EXCEPT !.teamA = Some(t[1]), !.teamB = Some(t[2])]

\* Lines 149-153: the first line holding both team names, each non-empty; the
\* team line itself is such a line; names kept from page 1 may occur as well.
IndiceTimes(d, cab) ==
    IF TruthyStr(d.teamA) /\ TruthyStr(d.teamB) /\ (cab.times # None \/ cab.anterior)
    THEN 2 ELSE -1

\* Lines 156-209: sport and league from the keyword line; failing that, and
\* with team names and their line known, from the generic line.
ComEsporte(d, cab, it) ==
    LET d1 == IF cab.esporte # None
              THEN [d EXCEPT !.sport = Some(Val(cab.esporte)[1]),
                             !.league = Some(Val(cab.esporte)[2])]
              ELSE d
    IN IF ~TruthyStr(d1.sport) /\ TruthyStr(d1.teamA) /\ it >= 0 /\ cab.generica # None
       THEN [d1 EXCEPT !.sport = Some(Val(cab.generica)[1]),
                       !.league = Some(Val(cab.generica)[2])]
       ELSE d1

\* The plain fields lines 116-209 assign for these header lines.
CamposEscritos(cab, d, it) ==
    (IF cab.evento # None THEN {"date"} ELSE {})
    \cup (IF cab.times # None THEN {"teamA", "teamB"} ELSE {})
    \cup (IF cab.times # None /\ Val(cab.times)[3] # None THEN {"profitPercentage"} ELSE {})
    \cup (IF cab.esporte # None
             \/ (~TruthyStr(d.sport) /\ TruthyStr(d.teamA) /\ it >= 0 /\ cab.generica # None)
          THEN {"sport", "league"} ELSE {})

\* Lines 116-209: date, teams and percentage, sport and league of the page.
ExtraiCabecalho ==
    /\ UNCHANGED foraDoAsm
    /\ pc = "cab"
    /\ \E cab \in Cabecalhos :
         LET d1 == ComTimes(ComData(dados, cab), cab)
             it == IndiceTimes(d1, cab)
             d2 == ComEsporte(d1, cab, it)
         IN /\ dados' = d2
            /\ indice_times' = it
            /\ escrito' = [c \in Caminhos |->
                             IF Len(c) = 1 /\ c[1] \in CamposEscritos(cab, d1, it)
                             THEN d2[c[1]] ELSE escrito[c]]
            /\ hist' = [hist EXCEPT ![pagina].times =
                           cab.times # None /\ TruthyStr(d2.teamA) /\ TruthyStr(d2.teamB)]
    /\ pc' = "legs"
    /\ UNCHANGED <<argc, doc_ok, npages, pagina,
                   apostas_encontradas, ret, stdout, exit_code, detectadas, erro>>

SelectValidas(cands) == SelectSeq(cands, ApostaValida)

\* Lines 211-364: the segmenter walks the page; every candidate leg goes
\* through processar_aposta_completa and is kept when house and odd are set.
ExtraiApostas ==
    /\ UNCHANGED foraDoAsm
    /\ pc = "legs"
    /\ \E cands \in SeqsUpTo(Candidatas, MaxCand) :
         /\ apostas_encontradas' = SelectValidas(cands)
         /\ hist' = [hist EXCEPT ![pagina].validas =
                        [k \in 1..Len(cands) |-> ApostaValida(cands[k])]]
         /\ detectadas' = Prefixo(detectadas \o SelectValidas(cands), 3)
    /\ pc' = "map"
    /\ UNCHANGED <<argc, doc_ok, npages, pagina, dados, indice_times,
                   ret, stdout, exit_code, escrito, erro>>

\* Mutant of MapeiaSlot: a slot without a leg on this page is emptied.
MapeiaSlotOuLimpa(d, b, n) ==
    IF Len(apostas_encontradas) >= n
    THEN [d EXCEPT ![b] = DictUpdate(d[b], apostas_encontradas[n])]
    ELSE [d EXCEPT ![b] = bet_vazia]

\* Lines 367-374: slot n is updated from the n-th leg found on this page.
MapeiaSlot(d, b, n) ==
    IF Len(apostas_encontradas) >= n
    THEN [d EXCEPT ![b] = DictUpdate(d[b], apostas_encontradas[n])]
    ELSE d

AnotaSlot(e, b, n) ==
    IF Len(apostas_encontradas) >= n THEN AnotaBet(e, b, apostas_encontradas[n]) ELSE e

\* Mutant of DadosMapeados: the third leg of the page is not written.
DadosMapeadosSemBet3 == MapeiaSlot(MapeiaSlot(dados, "bet1", 1), "bet2", 2)

\* Lines 367-374: the record after the three updates.
DadosMapeados == MapeiaSlot(MapeiaSlot(MapeiaSlot(dados, "bet1", 1), "bet2", 2), "bet3", 3)

\* Mutant of DadosSuficientes: the test of teamB is left out.
DadosSuficientesSemTimeB(d, bets_detected) ==
    /\ TruthyStr(d.teamA)
    /\ TruthyStr(d.bet1.house) /\ TruthyStr(d.bet2.house)
    /\ (bets_detected < 3 \/ TruthyStr(d.bet3.house))

\* Lines 379-385: the stop decision.
DadosSuficientes(d, bets_detected) ==
    /\ TruthyStr(d.teamA) /\ TruthyStr(d.teamB)
    /\ TruthyStr(d.bet1.house) /\ TruthyStr(d.bet2.house)
    /\ (bets_detected < 3 \/ TruthyStr(d.bet3.house))

\* Lines 366-385 and 390: the legs of the page go to the slots; then the loop
\* breaks, which returns dados, or goes on to the next page.
MapeiaApostas ==
    /\ UNCHANGED foraDoAsm
    /\ pc = "map"
    /\ dados' = DadosMapeados
    /\ escrito' = AnotaSlot(AnotaSlot(AnotaSlot(escrito, "bet1", 1), "bet2", 2), "bet3", 3)
    /\ hist' = [hist EXCEPT ![pagina].pronto = TRUE]
    /\ UNCHANGED detectadas
    /\ IF DadosSuficientes(dados', Len(apostas_encontradas))
       THEN Retorna(dados')
       ELSE pc' = "loop" /\ UNCHANGED <<pagina, indice_times, apostas_encontradas, ret>>
    /\ UNCHANGED <<argc, doc_ok, npages, stdout, exit_code, erro>>

\* A statement of the extraction stages (lines 116-364) raises; control leaves
\* the loop for the handler of line 387.
PosicoesDaPagina == {"cab", "legs"}

LevantaNaPagina ==
    /\ UNCHANGED foraDoAsm
    /\ pc \in PosicoesDaPagina
    /\ pc' = "except"
    /\ erro' = "pagina"
    /\ hist' = [hist EXCEPT ![pagina].excecao = TRUE]
    /\ UNCHANGED <<argc, doc_ok, npages, pagina, dados, indice_times,
                   apostas_encontradas, ret, stdout, exit_code, detectadas, escrito>>

\* Mutant of TrataExcecao: the try block sits inside the page loop, so the
\* handler resumes the loop with the next page.
TrataExcecaoPorPagina ==
    /\ UNCHANGED foraDoAsm
    /\ pc = "except"
    /\ pc' = "loop"
    /\ UNCHANGED <<argc, doc_ok, npages, pagina, dados, indice_times,
                   apostas_encontradas, ret, stdout, exit_code, hist, detectadas,
                   escrito, erro>>

\* Mutant of TrataExcecao: the handler returns a fresh empty record.
TrataExcecaoDevolveVazio ==
    /\ UNCHANGED foraDoAsm
    /\ pc = "except"
    /\ Retorna(dados_inicial)
    /\ UNCHANGED <<argc, doc_ok, npages, dados, stdout, exit_code, hist, detectadas,
                   escrito, erro>>

\* Lines 387-390: the handler logs to stderr and falls through to the return.
TrataExcecao ==
    /\ UNCHANGED foraDoAsm
    /\ pc = "except"
    /\ Retorna(dados)
    /\ UNCHANGED <<argc, doc_ok, npages, dados, stdout, exit_code, hist, detectadas, escrito, erro>>

(***************************************************************************)
(* Back in main(), lines 800-817.                                          *)
(***************************************************************************)
\* Line 802: the record is written; the write itself can fail (a name the
\* stream's encoding cannot represent, a closed pipe), which is the only
\* exception that reaches the handler of line 803.
MainImprime ==
    /\ UNCHANGED foraDoAsm
    /\ pc = "print"
    /\ \/ /\ stdout' = ret
          /\ exit_code' = 0
          /\ pc' = "exit"
          /\ erro' = erro
       \/ /\ pc' = "main_except"
          /\ erro' = "print"
          /\ UNCHANGED <<stdout, exit_code>>
    /\ UNCHANGED <<argc, doc_ok, npages, pagina, dados, indice_times,
                   apostas_encontradas, ret, hist, detectadas, escrito>>

\* Lines 803-817: the failure output.
MainFalha ==
    /\ UNCHANGED foraDoAsm
    /\ pc = "main_except"
    /\ stdout' = Some(dados_vazio)
    /\ exit_code' = 1
    /\ pc' = "exit"
    /\ UNCHANGED <<argc, doc_ok, npages, pagina, dados, indice_times,
                   apostas_encontradas, ret, hist, detectadas, escrito, erro>>

Next ==
    \/ MainUso
    \/ MainChama
    \/ AbrePdf
    \/ ProximaPagina
    \/ FimDasPaginas
    \/ ExtraiCabecalho
    \/ ExtraiApostas
    \/ MapeiaApostas
    \/ LevantaNaPagina
    \/ TrataExcecao
    \/ MainImprime
    \/ MainFalha

Spec == Init /\ [][Next]_vars

(***************************************************************************)
(* Text.  A str is a TLA+ string; s[i] of Python is Char(s, i + 1).        *)
(* Glyphs outside ASCII are written with stand-ins that occur nowhere else *)
(* in the texts of the model: "@" is U+25CF (black circle), "~" is U+25CB  *)
(* (white circle), ">" is U+232A (right angle bracket).                    *)
(***************************************************************************)
Char(s, i) == SubSeq(s, i, i)

Maiusculas == "ABCDEFGHIJKLMNOPQRSTUVWXYZ"
Minusculas == "abcdefghijklmnopqrstuvwxyz"
Digitos == "0123456789"

\* `sub in s`.
Contem(s, sub) ==
    \E i \in 1..(Len(s) - Len(sub) + 1) : SubSeq(s, i, i + Len(sub) - 1) = sub

\* s.find(sub): 0-based index of the first occurrence, -1 when absent.
Find(s, sub) ==
    IF Contem(s, sub)
    THEN (CHOOSE i \in 1..(Len(s) - Len(sub) + 1) :
             /\ SubSeq(s, i, i + Len(sub) - 1) = sub
             /\ \A j \in 1..(i - 1) : SubSeq(s, j, j + Len(sub) - 1) # sub) - 1
    ELSE -1

IsUpper(c) == Len(c) = 1 /\ Contem(Maiusculas, c)
IsLower(c) == Len(c) = 1 /\ Contem(Minusculas, c)
IsDigit(c) == Len(c) = 1 /\ Contem(Digitos, c)
IsSpace(c) == c \in {" ", "\t", "\n", "\r"}
\* \w of re: letters, digits and the underscore.
IsWord(c) == IsUpper(c) \/ IsLower(c) \/ IsDigit(c) \/ c = "_"

LowerChar(c) == IF IsUpper(c) THEN Char(Minusculas, Find(Maiusculas, c) + 1) ELSE c

RECURSIVE Lower(_)
Lower(s) == IF s = "" THEN "" ELSE LowerChar(Head(s)) \o Lower(Tail(s))

RECURSIVE LStrip(_)
LStrip(s) == IF s # "" /\ IsSpace(Head(s)) THEN LStrip(Tail(s)) ELSE s
RECURSIVE RStrip(_)
RStrip(s) ==
    IF s # "" /\ IsSpace(Char(s, Len(s))) THEN RStrip(SubSeq(s, 1, Len(s) - 1)) ELSE s
\* s.strip().
Strip(s) == RStrip(LStrip(s))

StartsWith(s, pre) == Len(pre) <= Len(s) /\ SubSeq(s, 1, Len(pre)) = pre

\* s.split(sep): the pieces between the occurrences of sep, left to right.
RECURSIVE Split(_, _)
Split(s, sep) ==
    LET k == Find(s, sep)
    IN IF k < 0 THEN <<s>>
       ELSE <<SubSeq(s, 1, k)>> \o Split(SubSeq(s, k + Len(sep) + 1, Len(s)), sep)

\* s.split(): the maximal runs of non-whitespace.
RECURSIVE SplitWs(_)
SplitWs(s) ==
    LET t == LStrip(s)
        fim == IF \E i \in 1..Len(t) : IsSpace(Char(t, i))
               THEN (CHOOSE i \in 1..Len(t) :
                        IsSpace(Char(t, i)) /\ \A j \in 1..(i - 1) : ~IsSpace(Char(t, j))) - 1
               ELSE Len(t)
    IN IF t = "" THEN << >>
       ELSE <<SubSeq(t, 1, fim)>> \o SplitWs(SubSeq(t, fim + 1, Len(t)))

\* sep.join(parts).
RECURSIVE Join(_, _)
Join(parts, sep) ==
    IF parts = << >> THEN ""
    ELSE IF Len(parts) = 1 THEN parts[1]
    ELSE parts[1] \o sep \o Join(Tail(parts), sep)

\* \b of re at the gap after the first p characters of s.
Fronteira(s, p) ==
    LET antes == p >= 1 /\ IsWord(Char(s, p))
        depois == p + 1 <= Len(s) /\ IsWord(Char(s, p + 1))
    IN antes # depois

\* End positions e such that s[p+1..e] matches \d+ .
FimDeDigitos(s, p) ==
    {e \in (p + 1)..Len(s) : \A k \in (p + 1)..e : IsDigit(Char(s, k))}
\* End positions of a match of \d+\.\d+ that starts right after position p.
FimDeDecimal(s, p) ==
    UNION {IF e + 1 <= Len(s) /\ Char(s, e + 1) = "." THEN FimDeDigitos(s, e + 1) ELSE {}
           : e \in FimDeDigitos(s, p)}
\* re.search(r'\d+\.\d+', s).
TemDecimal(s) == \E p \in 0..Len(s) : FimDeDecimal(s, p) # {}

(***************************************************************************)
(* House Gazetteer and House Detector, detectar_casa_apostas.              *)
(***************************************************************************)
\* casas_sistema, lines 399-551: an excerpt of the list, in the order of the
\* source: bare names, names with a parenthetical suffix, names of several
\* words, the two pairs that differ by a space, a name ending in "+".
casas_sistema ==
    <<"10Bet", "Betano", "Betano (BR)", "Betfair", "Betfair (BR)", "Betfair SB",
      "Betfair SB (ES)", "CloudBet", "MarjoSports (BR)", "Marjo Sports (BR)",
      "Marjo", "Miseojeu+", "Pinnacle", "Stake", "Stake (BR)", "KTO (BR)",
      "SuperBet (BR)", "Super Bet (BR)", "SX Bet", "William Hill">>

TemParentese(casa) == Contem(casa, "(")

\* Mutant of ChaveMenor: the list is sorted by ascending length.
ChaveMenorCrescente(a, b) ==
    \/ Len(a) < Len(b)
    \/ Len(a) = Len(b) /\ TemParentese(a) /\ ~TemParentese(b)

\* Line 557: the sort key (-len(x), '(' not in x); a sorts before b when its
\* key is smaller.
ChaveMenor(a, b) ==
    \/ Len(a) > Len(b)
    \/ Len(a) = Len(b) /\ TemParentese(a) /\ ~TemParentese(b)

\* Line 557: sorted() is stable: entries of equal key keep the list order.
Posicao(i) ==
    1 + Cardinality({j \in DOMAIN casas_sistema :
            \/ ChaveMenor(casas_sistema[j], casas_sistema[i])
            \/ /\ ~ChaveMenor(casas_sistema[i], casas_sistema[j])
               /\ j < i})

casas_ordenadas ==
    [r \in DOMAIN casas_sistema |->
        casas_sistema[CHOOSE i \in DOMAIN casas_sistema : Posicao(i) = r]]

\* Lines 566-581: an entry "base (suffix)": every word of the base and the
\* suffix occur in the line, the first base word before the suffix.
CasaComSufixo(casa_lower, linha_lower) ==
    LET corte == Find(casa_lower, " (")
        nome_base == SubSeq(casa_lower, 1, corte)
        sufixo == "(" \o SubSeq(casa_lower, corte + 3, Len(casa_lower))
        palavras_base == SplitWs(nome_base)
    IN /\ \A k \in DOMAIN palavras_base : Contem(linha_lower, palavras_base[k])
       /\ Contem(linha_lower, sufixo)
       /\ Find(linha_lower, palavras_base[1]) < Find(linha_lower, sufixo)

\* Line 588: the pattern of a bare name matched from position p on: every
\* character literally, a space as \s* .  The set of end positions.
RECURSIVE FimDoNome(_, _, _)
FimDoNome(nome, s, p) ==
    IF nome = "" THEN {p}
    ELSE IF Head(nome) = " "
    THEN UNION {FimDoNome(Tail(nome), s, q) :
                  q \in {q \in p..Len(s) : \A k \in (p + 1)..q : IsSpace(Char(s, k))}}
    ELSE IF p + 1 <= Len(s) /\ Char(s, p + 1) = Head(nome)
    THEN FimDoNome(Tail(nome), s, p + 1)
    ELSE {}

\* Lines 588-589: re.search(r'\b' + pattern + r'\b', linha_lower).
CasaSemParentese(casa_lower, linha_lower) ==
    \E p \in 0..Len(linha_lower) :
        /\ Fronteira(linha_lower, p)
        /\ \E e \in FimDoNome(casa_lower, linha_lower, p) : Fronteira(linha_lower, e)

\* Lines 561-590: the test one entry of the sorted list goes through.
CasaPresente(casa, linha_lower) ==
    LET casa_lower == Lower(casa)
    IN IF Contem(casa_lower, "(")
       THEN IF Contem(casa_lower, " (")
            THEN CasaComSufixo(casa_lower, linha_lower)
            ELSE Contem(linha_lower, casa_lower)
       ELSE CasaSemParentese(casa_lower, linha_lower)

\* Lines 559-590: the first entry of the sorted list that is present.
CasaDoSistema(linha) ==
    LET linha_lower == Lower(linha)
        achadas == {r \in DOMAIN casas_ordenadas :
                        CasaPresente(casas_ordenadas[r], linha_lower)}
    IN IF achadas = {} THEN None
       ELSE Some(casas_ordenadas[CHOOSE r \in achadas : \A q \in achadas : r <= q])

\* Character classes of the pattern of line 594 (U+2265 and U+2264, which the
\* second class also admits, are not among the characters of the model).
IsLetter(c) == IsUpper(c) \/ IsLower(c)
NaClasseDaCasa(c) == IsLetter(c) \/ IsSpace(c) \/ c \in {"(", ")"}
NaClasseDoTipo(c) == IsLetter(c) \/ IsDigit(c) \/ c \in {"(", ")", "+", "-", "."}

\* Line 594, after the group: \s+[A-Za-z0-9()+\-.]+\s+\d+\.\d+ from position g.
RestoDoPadrao(s, g) ==
    \E a \in (g + 1)..Len(s), b \in (g + 2)..Len(s), c \in (g + 3)..Len(s) :
        /\ a < b /\ b < c
        /\ \A k \in (g + 1)..a : IsSpace(Char(s, k))
        /\ \A k \in (a + 1)..b : NaClasseDoTipo(Char(s, k))
        /\ \A k \in (b + 1)..c : IsSpace(Char(s, k))
        /\ FimDeDecimal(s, c) # {}

\* Line 594: the lengths the group ([A-Z][A-Za-z\s\(\)]{2,30}) can take.
GruposPossiveis(s) ==
    {g \in 3..Min(31, Len(s)) :
        /\ IsUpper(Char(s, 1))
        /\ \A k \in 2..g : NaClasseDaCasa(Char(s, k))
        /\ RestoDoPadrao(s, g)}

\* Lines 594-599: the greedy group is the longest one; it is returned
\* stripped when at least 3 characters remain.
CasaPorPadrao(s) ==
    IF GruposPossiveis(s) = {} THEN None
    ELSE LET g == CHOOSE g \in GruposPossiveis(s) : \A h \in GruposPossiveis(s) : h <= g
             casa_candidata == Strip(SubSeq(s, 1, g))
         IN IF Len(casa_candidata) >= 3 THEN Some(casa_candidata) ELSE None

\* Line 610: casa.split('(')[0].strip().
CasaLimpa(c) == Strip(Split(c, "(")[1])

\* Lines 603-613: the first word of the line, when it is a capitalized word
\* of 3 to 15 characters that some entry of the list starts with.
CasaPorFragmento(s) ==
    LET palavras == SplitWs(Strip(s))
    IN IF palavras = << >> THEN None
       ELSE LET primeira_palavra == palavras[1]
            IN IF /\ Len(primeira_palavra) >= 3 /\ Len(primeira_palavra) <= 15
                  /\ IsUpper(Char(primeira_palavra, 1))
                  /\ \E i \in DOMAIN casas_sistema :
                        StartsWith(Lower(CasaLimpa(casas_sistema[i])), Lower(primeira_palavra))
               THEN Some(primeira_palavra)
               ELSE None

\* detectar_casa_apostas, lines 392-617.
detectar_casa_apostas(s) ==
    IF CasaDoSistema(s) # None THEN CasaDoSistema(s)
    ELSE IF CasaPorPadrao(s) # None THEN CasaPorPadrao(s)
    ELSE CasaPorFragmento(s)

(***************************************************************************)
(* SpecCasa: the House Detector applied to one line.                       *)
(***************************************************************************)
Gazetteer == {casas_sistema[i] : i \in DOMAIN casas_sistema}

\* The lines given to the detector: every entry alone, every entry followed
\* by a bet description, every two entries on one line, and lines without a
\* known house.
LinhasDeCasa ==
    Gazetteer
    \cup {h \o " Mais de 2.5 gols 1.85" : h \in Gazetteer}
    \cup {h \o " " \o g : h \in Gazetteer, g \in Gazetteer}
    \cup {"Sportingbet Vitoria 2.10", "Cloud", "Sports", "Superior", "(BR)",
          "Aposta total", "gols 2.5", "Mar", "Stakes (BR)", "Be", "stake",
          "WilliamHill", "William  Hill 1.5", "Miseojeu+1", "KTO 2.10 (BR)",
          "(BR) KTO", "Bet Super (BR)", "Ab Cd 1.50", "Abc (X) y 1.50"}

\* The variables of main() and extrair_dados_pdf while another function is
\* under study.
AsmParado ==
    /\ pc = "" /\ argc = 0 /\ doc_ok = TRUE /\ npages = 0 /\ pagina = 0
    /\ dados = dados_inicial /\ indice_times = -1 /\ apostas_encontradas = << >>
    /\ ret = None /\ stdout = None /\ exit_code = -1
    /\ hist = << >> /\ detectadas = << >>
    /\ escrito = [c \in Caminhos |-> None] /\ erro = ""

\* The variables of the reassembler while another function is under study.
LinhasParadas ==
    texto_bruto = "" /\ primeira_passagem = None /\ segunda_passagem = None

InitCasa ==
    /\ AsmParado
    /\ LinhasParadas
    /\ PassosParados
    /\ fase = "entrada"
    /\ linha_entrada \in LinhasDeCasa
    /\ casa_detectada = None

\* One call of detectar_casa_apostas(linha_entrada).
DetectaCasa ==
    /\ fase = "entrada"
    /\ casa_detectada' = detectar_casa_apostas(linha_entrada)
    /\ fase' = "saida"
    /\ UNCHANGED <<asmVars, linha_entrada, linhasVars, passoVars>>

NextCasa == DetectaCasa

SpecCasa == InitCasa /\ [][NextCasa]_vars

(***************************************************************************)
(* Line Reassembler, preprocessar_linhas_quebradas.                        *)
(* "@", "~" and ">" stand for the bullets U+25CF, U+25CB and the bracket   *)
(* U+232A of the slip.                                                     *)
(***************************************************************************)
\* Line 25: the lines that are only a country suffix.
Sufixos == {"(BR)", "(CO)", "(PT)", "(RO)", "(BE)", "(MX)", "(UK)", "(ZA)", "(SE)"}

\* Line 33: 'USD' in linha_atual and any(char.isdigit() ...).
TemOddsUsd(linha_atual) ==
    /\ Contem(linha_atual, "USD")
    /\ \E k \in 1..Len(linha_atual) : IsDigit(Char(linha_atual, k))

\* Line 44: re.search(r'\d+\.\d+|\d+\s+USD', proxima_linha).
TemOddsSignificativos(proxima_linha) ==
    \/ TemDecimal(proxima_linha)
    \/ \E p \in 0..Len(proxima_linha) : \E e \in FimDeDigitos(proxima_linha, p) :
          \E a \in (e + 1)..Len(proxima_linha) :
              /\ \A k \in (e + 1)..a : IsSpace(Char(proxima_linha, k))
              /\ a + 3 <= Len(proxima_linha)
              /\ SubSeq(proxima_linha, a + 1, a + 3) = "USD"

\* Line 48: separators of the slip.
Separadores == {">", "~", "@"}

\* Lines 49-50: words that open a section of the slip.
PalavrasDeSecao ==
    {"aposta total", "mostrar", "use sua", "arredondar", "evento", "chance"}

\* Lines 46-51: eh_continuacao.
EhContinuacao(proxima_linha) ==
    /\ proxima_linha # ""
    /\ ~TemOddsSignificativos(proxima_linha)
    /\ proxima_linha \notin Separadores
    /\ ~\E keyword \in PalavrasDeSecao : Contem(Lower(proxima_linha), keyword)
    /\ Len(proxima_linha) > 2

\* Mutant of NoLaco: the loop stops one line early.
NoLacoCurto(lines, i) == i < Len(lines)

\* Line 16: while i < len(lines), with i counted from 1.
NoLaco(lines, i) == i <= Len(lines)

\* Lines 16-61: lines_processadas built from line i on.
RECURSIVE Processa(_, _)
Processa(lines, i) ==
    IF ~NoLaco(lines, i) THEN << >>
    ELSE LET linha_atual == Strip(lines[i])
             tem_proxima == i + 1 <= Len(lines)
             proxima_linha == Strip(lines[i + 1])
         IN IF linha_atual = "" THEN Processa(lines, i + 1)
            ELSE IF tem_proxima /\ proxima_linha \in Sufixos
            THEN <<linha_atual \o " " \o proxima_linha>> \o Processa(lines, i + 2)
            ELSE IF /\ TemOddsUsd(linha_atual) /\ tem_proxima
                    /\ EhContinuacao(proxima_linha)
            THEN <<linha_atual \o " " \o proxima_linha>> \o Processa(lines, i + 2)
            ELSE <<linha_atual>> \o Processa(lines, i + 1)

\* preprocessar_linhas_quebradas, lines 8-63.
preprocessar_linhas_quebradas(texto) ==
    Join(Processa(Split(texto, "\n"), 1), "\n")

(***************************************************************************)
(* SpecLinhas: the Line Reassembler applied to a page text, then to its    *)
(* own output.                                                             *)
(***************************************************************************)
MaxLinhas == 3

\* The physical lines a page text is made of.
LinhasBrutas ==
    {"", "KTO", "(BR)", " (CO)", "Stake 2.10 50 USD", "5 USD", "Vitoria ",
     "@", "Evento", "X2"}

TextosBrutos ==
    {Join(ls, "\n") : ls \in UNION {[1..n -> LinhasBrutas] : n \in 1..MaxLinhas}}

CasaParada == linha_entrada = "" /\ casa_detectada = None

InitLinhas ==
    /\ AsmParado
    /\ CasaParada
    /\ PassosParados
    /\ fase = "entrada"
    /\ texto_bruto \in TextosBrutos
    /\ primeira_passagem = None
    /\ segunda_passagem = None

\* texto_processado = preprocessar_linhas_quebradas(texto_bruto).
PrimeiraPassagem ==
    /\ fase = "entrada"
    /\ primeira_passagem' = Some(preprocessar_linhas_quebradas(texto_bruto))
    /\ fase' = "uma"
    /\ UNCHANGED <<asmVars, casaVars, texto_bruto, segunda_passagem, passoVars>>

\* The reassembler applied to the text it produced.
SegundaPassagem ==
    /\ fase = "uma"
    /\ segunda_passagem' = Some(preprocessar_linhas_quebradas(Val(primeira_passagem)))
    /\ fase' = "duas"
    /\ UNCHANGED <<asmVars, casaVars, texto_bruto, primeira_passagem, passoVars>>

NextLinhas == PrimeiraPassagem \/ SegundaPassagem

SpecLinhas == InitLinhas /\ [][NextLinhas]_vars

(***************************************************************************)
(* SpecLaco: the loop of preprocessar_linhas_quebradas, one action per     *)
(* iteration.                                                              *)
(***************************************************************************)
\* Mutant of LinhaVazia: blank lines are not skipped.
LinhaVaziaNunca(linha_atual) == FALSE

\* Line 19: not linha_atual.
LinhaVazia(linha_atual) == linha_atual = ""

\* Mutant of LinhaJuntada: the two lines are joined without a space.
LinhaJuntadaSemEspaco(linha_atual, proxima_linha) == linha_atual \o proxima_linha

\* Lines 26 and 54: linha_juntada.
LinhaJuntada(linha_atual, proxima_linha) == linha_atual \o " " \o proxima_linha

InitLaco ==
    /\ AsmParado
    /\ CasaParada
    /\ LinhasParadas
    /\ ExtParado
    /\ SegParado
    /\ fase = "laco"
    /\ lines_pagina \in {Split(t, "\n") : t \in TextosBrutos}
    /\ i_laco = 1
    /\ lines_processadas = << >>
    /\ origem = << >>
    /\ texto_processado = None

LinhaAtual == Strip(lines_pagina[i_laco])
TemProxima == i_laco + 1 <= Len(lines_pagina)
ProximaLinha == Strip(lines_pagina[i_laco + 1])

\* Line 24-25: the next line is only a suffix.
Caso1 == TemProxima /\ ProximaLinha \in Sufixos

\* Lines 33-53: the current line has odds and the next one continues it.
Caso2 == TemOddsUsd(LinhaAtual) /\ TemProxima /\ EhContinuacao(ProximaLinha)

foraDoLaco == <<asmVars, casaVars, linhasVars, extVars, segVars>>

\* Mutant of LacoLinhaVazia: the cursor stays on the blank line.
LacoLinhaVaziaSemAvanco ==
    /\ fase = "laco" /\ NoLaco(lines_pagina, i_laco)
    /\ LinhaVazia(LinhaAtual)
    /\ UNCHANGED vars

\* Lines 19-21: a blank line is skipped.
LacoLinhaVazia ==
    /\ fase = "laco" /\ NoLaco(lines_pagina, i_laco)
    /\ LinhaVazia(LinhaAtual)
    /\ i_laco' = i_laco + 1
    /\ UNCHANGED <<fase, lines_pagina, lines_processadas, origem, texto_processado, foraDoLaco>>

\* Mutant of LacoSufixo: the cursor moves past the current line only.
LacoSufixoAvancaUm ==
    /\ fase = "laco" /\ NoLaco(lines_pagina, i_laco)
    /\ ~LinhaVazia(LinhaAtual)
    /\ Caso1
    /\ lines_processadas' = Append(lines_processadas, LinhaJuntada(LinhaAtual, ProximaLinha))
    /\ origem' = Append(origem, i_laco)
    /\ i_laco' = i_laco + 1
    /\ UNCHANGED <<fase, lines_pagina, texto_processado, foraDoLaco>>

\* Lines 24-29: CASO 1.
LacoSufixo ==
    /\ fase = "laco" /\ NoLaco(lines_pagina, i_laco)
    /\ ~LinhaVazia(LinhaAtual)
    /\ Caso1
    /\ lines_processadas' = Append(lines_processadas, LinhaJuntada(LinhaAtual, ProximaLinha))
    /\ origem' = Append(origem, i_laco)
    /\ i_laco' = i_laco + 2
    /\ UNCHANGED <<fase, lines_pagina, texto_processado, foraDoLaco>>

\* Lines 33-57: CASO 2.
LacoContinuacao ==
    /\ fase = "laco" /\ NoLaco(lines_pagina, i_laco)
    /\ ~LinhaVazia(LinhaAtual)
    /\ ~Caso1
    /\ Caso2
    /\ lines_processadas' = Append(lines_processadas, LinhaJuntada(LinhaAtual, ProximaLinha))
    /\ origem' = Append(origem, i_laco)
    /\ i_laco' = i_laco + 2
    /\ UNCHANGED <<fase, lines_pagina, texto_processado, foraDoLaco>>

\* Lines 60-61: CASO 3.
LacoNormal ==
    /\ fase = "laco" /\ NoLaco(lines_pagina, i_laco)
    /\ ~LinhaVazia(LinhaAtual)
    /\ ~Caso1
    /\ ~Caso2
    /\ lines_processadas' = Append(lines_processadas, LinhaAtual)
    /\ origem' = Append(origem, i_laco)
    /\ i_laco' = i_laco + 1
    /\ UNCHANGED <<fase, lines_pagina, texto_processado, foraDoLaco>>

\* Line 63: return '\n'.join(lines_processadas).
LacoRetorna ==
    /\ fase = "laco" /\ ~NoLaco(lines_pagina, i_laco)
    /\ texto_processado' = Some(Join(lines_processadas, "\n"))
    /\ fase' = "fim"
    /\ UNCHANGED <<lines_pagina, i_laco, lines_processadas, origem, foraDoLaco>>

NextLaco ==
    \/ LacoLinhaVazia
    \/ LacoSufixo
    \/ LacoContinuacao
    \/ LacoNormal
    \/ LacoRetorna

SpecLaco == InitLaco /\ [][NextLaco]_vars

(***************************************************************************)
(* Field Extractor, processar_aposta_completa.                             *)
(* "@", "~" and "#" stand for the glyphs U+25CF, U+25CB and U+F35D.        *)
(* float values are integers in thousandths; the numbers of the texts have *)
(* at most three decimals and no two of them differ by exactly 0.01, for   *)
(* which the comparisons of lines 652, 689 and 728-732 are exact.          *)
(***************************************************************************)
Simbolos == {"@", "~", "#"}
Moedas == {"USD", "BRL"}

\* re.search of a pattern that is a set of literals: 0-based start of the
\* leftmost occurrence, -1 when there is none.
PrimeiroDe(s, literais) ==
    LET ps == {Find(s, l) : l \in {l \in literais : Contem(s, l)}}
    IN IF ps = {} THEN -1 ELSE CHOOSE p \in ps : \A q \in ps : p <= q

\* Lines 626-639: parte_antes_simbolo.
ParteAntesSimbolo(texto_aposta) ==
    LET simbolo == PrimeiroDe(texto_aposta, Simbolos)
        moeda == PrimeiroDe(texto_aposta, Moedas)
    IN IF simbolo >= 0 THEN Strip(SubSeq(texto_aposta, 1, simbolo))
       ELSE IF moeda >= 0 THEN Strip(SubSeq(texto_aposta, 1, moeda))
       ELSE texto_aposta

\* re.findall(r'\d+\.\d+', s): the matches from left to right, each one as
\* long as possible, none overlapping the one before.
RECURSIVE Decimais(_)
Decimais(s) ==
    LET inicios == {p \in 0..Len(s) : FimDeDecimal(s, p) # {}}
    IN IF inicios = {} THEN << >>
       ELSE LET p == CHOOSE p \in inicios : \A q \in inicios : p <= q
                e == CHOOSE e \in FimDeDecimal(s, p) : \A f \in FimDeDecimal(s, p) : f <= e
            IN <<SubSeq(s, p + 1, e)>> \o Decimais(SubSeq(s, e + 1, Len(s)))

\* int() of a string of digits.
RECURSIVE IntVal(_)
IntVal(s) ==
    IF s = "" THEN 0
    ELSE IntVal(SubSeq(s, 1, Len(s) - 1)) * 10 + Find(Digitos, Char(s, Len(s)))

\* float() of "-?digits[.digits]", in thousandths.
Valor(palavra) ==
    LET negativo == StartsWith(palavra, "-")
        corpo == IF negativo THEN Tail(palavra) ELSE palavra
        k == Find(corpo, ".")
        inteiro == IF k < 0 THEN corpo ELSE SubSeq(corpo, 1, k)
        fracao == IF k < 0 THEN "" ELSE SubSeq(corpo, k + 2, Len(corpo))
        milesimos == IF Len(fracao) = 0 THEN 0
                     ELSE IF Len(fracao) = 1 THEN IntVal(fracao) * 100
                     ELSE IF Len(fracao) = 2 THEN IntVal(fracao) * 10
                     ELSE IntVal(SubSeq(fracao, 1, 3))
        modulo == IntVal(inteiro) * 1000 + milesimos
    IN IF negativo THEN 0 - modulo ELSE modulo

\* str() of a non-negative integer.
RECURSIVE IntStr(_)
IntStr(n) ==
    IF n < 10 THEN Char(Digitos, n + 1)
    ELSE IntStr(n \div 10) \o Char(Digitos, (n % 10) + 1)

\* Line 676: str() of a non-negative float: "100.0", "18.5", "9.25", "1.855".
FloatStr(v) ==
    IntStr(v \div 1000) \o "." \o IntStr((v % 1000) \div 100) \o
        (IF v % 100 = 0 THEN ""
         ELSE IntStr((v % 100) \div 10) \o (IF v % 10 = 0 THEN "" ELSE IntStr(v % 10)))

\* Python truth of a float or None.
TruthyFloat(o) == o # None /\ Val(o) # 0

\* Mutant of OddNaFaixa: the first number in the range wins, not the last.
RECURSIVE OddNaFaixaDoInicio(_)
OddNaFaixaDoInicio(numeros) ==
    IF numeros = << >> THEN None
    ELSE IF Valor(Head(numeros)) >= 1000 /\ Valor(Head(numeros)) <= 50000
         THEN Some(Valor(Head(numeros)))
         ELSE OddNaFaixaDoInicio(Tail(numeros))

\* Lines 650-654: the loop over reversed(numeros_antes).
RECURSIVE OddNaFaixa(_)
OddNaFaixa(numeros) ==
    IF numeros = << >> THEN None
    ELSE LET num == Valor(numeros[Len(numeros)])
         IN IF num >= 1000 /\ num <= 50000 THEN Some(num)
            ELSE OddNaFaixa(SubSeq(numeros, 1, Len(numeros) - 1))

\* Lines 644-657: odd.
ExtraiOdd(texto_aposta) ==
    LET numeros_antes == Decimais(ParteAntesSimbolo(texto_aposta))
    IN IF numeros_antes = << >> THEN None
       ELSE IF TruthyFloat(OddNaFaixa(numeros_antes)) THEN OddNaFaixa(numeros_antes)
       ELSE Some(Valor(numeros_antes[Len(numeros_antes)]))

\* Line 665: the end of group 1 of (\d+\.?\d*)\s+(USD|BRL) for a match that
\* starts right after position p; 0 when there is no match from there.
FimDoStake(s, p) ==
    LET ds == FimDeDigitos(s, p)
        d1 == CHOOSE d \in ds : \A f \in ds : f <= d
        fs == FimDeDigitos(s, d1 + 1) \cup {d1 + 1}
        e == IF d1 + 1 <= Len(s) /\ Char(s, d1 + 1) = "."
             THEN CHOOSE g \in fs : \A f \in fs : f <= g
             ELSE d1
    IN IF ds = {} THEN 0
       ELSE IF \E a \in (e + 1)..Len(s) :
                  /\ \A k \in (e + 1)..a : IsSpace(Char(s, k))
                  /\ a + 3 <= Len(s)
                  /\ SubSeq(s, a + 1, a + 3) \in Moedas
            THEN e
            ELSE 0

\* Lines 665-667: stake, the number of stake_matches[0].
ExtraiStake(texto_aposta) ==
    LET inicios == {p \in 0..Len(texto_aposta) : FimDoStake(texto_aposta, p) > 0}
    IN IF inicios = {} THEN None
       ELSE LET p == CHOOSE p \in inicios : \A q \in inicios : p <= q
            IN Some(Valor(SubSeq(texto_aposta, p + 1, FimDoStake(texto_aposta, p))))

\* Lines 674-683: the last decimal number after the first occurrence of
\* str(stake) in the text.
ProfitPosStake(texto_aposta, stake) ==
    IF ~TruthyFloat(stake) THEN None
    ELSE LET stake_str == FloatStr(Val(stake))
             k == Find(texto_aposta, stake_str)
             texto_pos_stake ==
                 SubSeq(texto_aposta, k + Len(stake_str) + 1, Len(texto_aposta))
             numeros_pos_stake == Decimais(texto_pos_stake)
         IN IF k < 0 \/ numeros_pos_stake = << >> THEN None
            ELSE Some(Valor(numeros_pos_stake[Len(numeros_pos_stake)]))

\* Mutant of ProfitFallback: a number less than 0.01 away from the stake or
\* from the odd is passed over, as the words of lines 728-732 are.
RECURSIVE ProfitFallbackComTolerancia(_, _, _, _)
ProfitFallbackComTolerancia(numeros, stake, odd, profit) ==
    IF numeros = << >> THEN profit
    ELSE LET num == Valor(numeros[Len(numeros)])
             longe(v) == v = None \/ num - Val(v) >= 10 \/ Val(v) - num >= 10
         IN IF longe(stake) /\ longe(odd) /\ num < 1000000
            THEN Some(num)
            ELSE ProfitFallbackComTolerancia(SubSeq(numeros, 1, Len(numeros) - 1),
                                             stake, odd, profit)

\* Lines 687-691: the last number below 1000 that is neither stake nor odd.
RECURSIVE ProfitFallback(_, _, _, _)
ProfitFallback(numeros, stake, odd, profit) ==
    IF numeros = << >> THEN profit
    ELSE LET num == Valor(numeros[Len(numeros)])
         IN IF Some(num) # stake /\ Some(num) # odd /\ num < 1000000
            THEN Some(num)
            ELSE ProfitFallback(SubSeq(numeros, 1, Len(numeros) - 1), stake, odd, profit)

\* Lines 660-691: profit.
ExtraiProfit(texto_aposta, odd, stake) ==
    LET profit == ProfitPosStake(texto_aposta, stake)
    IN IF TruthyFloat(profit) THEN profit
       ELSE ProfitFallback(Decimais(texto_aposta), stake, odd, profit)

\* s.replace(velho, '', 1).
RemovePrimeiro(s, velho) ==
    LET k == Find(s, velho)
    IN IF velho = "" \/ k < 0 THEN s
       ELSE SubSeq(s, 1, k) \o SubSeq(s, k + Len(velho) + 1, Len(s))

\* re.sub of a literal by '': every occurrence, from left to right.
RECURSIVE RemoveTodos(_, _)
RemoveTodos(s, velho) ==
    LET k == Find(s, velho)
    IN IF velho = "" \/ k < 0 THEN s
       ELSE SubSeq(s, 1, k) \o RemoveTodos(SubSeq(s, k + Len(velho) + 1, Len(s)), velho)

\* Lines 696-697: tipo_completo.
TipoCompleto(texto_aposta, casa_aposta) ==
    Strip(RemoveTodos(Strip(RemovePrimeiro(texto_aposta, casa_aposta)), "(BR)"))

\* Lines 704-705: palavras_chave_tipo (the two ordinals written with U+00BA
\* are not among the characters of the model).
palavras_chave_tipo ==
    {"acima", "abaixo", "total", "over", "under", "mais", "menos",
     "primeiro", "segundo", "tempo", "extra"}

\* Line 719: re.match(r'^-?\d+\.?\d*$', palavra).
EhNumero(palavra) ==
    LET corpo == IF StartsWith(palavra, "-") THEN Tail(palavra) ELSE palavra
        k == Find(corpo, ".")
        inteiro == IF k < 0 THEN corpo ELSE SubSeq(corpo, 1, k)
        fracao == IF k < 0 THEN "" ELSE SubSeq(corpo, k + 2, Len(corpo))
    IN /\ inteiro # ""
       /\ \A j \in 1..Len(inteiro) : IsDigit(Char(inteiro, j))
       /\ \A j \in 1..Len(fracao) : IsDigit(Char(fracao, j))

\* Lines 713-716: palavra_anterior_eh_chave.
PalavraAnteriorEhChave(palavras, i) ==
    /\ i > 1
    /\ \E chave \in palavras_chave_tipo : Contem(Strip(Lower(palavras[i - 1])), chave)

\* Lines 728-732: abs(num - v) < 0.01 for a truthy v.
Perto(num, v) == TruthyFloat(v) /\ num - Val(v) < 10 /\ Val(v) - num < 10

\* Lines 709-737: the words the loop does not keep.
Descarta(palavras, i, odd, stake, profit) ==
    \/ palavras[i] \in Moedas
    \/ /\ EhNumero(palavras[i])
       /\ ~PalavraAnteriorEhChave(palavras, i)
       /\ \/ Perto(Valor(palavras[i]), odd)
          \/ Perto(Valor(palavras[i]), stake)
          \/ Perto(Valor(palavras[i]), profit)
          \/ Valor(palavras[i]) < 0

\* Lines 707-739: palavras_filtradas, from word i on.
RECURSIVE Filtra(_, _, _, _, _)
Filtra(palavras, i, odd, stake, profit) ==
    IF i > Len(palavras) THEN << >>
    ELSE (IF Descarta(palavras, i, odd, stake, profit) THEN << >> ELSE <<palavras[i]>>)
         \o Filtra(palavras, i + 1, odd, stake, profit)

\* Lines 744-746: the glyphs removed from the type (">" stands for U+232A).
RECURSIVE SemGlifos(_)
SemGlifos(s) ==
    IF s = "" THEN ""
    ELSE (IF Head(s) \in {"@", "~", "#", ">"} THEN "" ELSE SubSeq(s, 1, 1))
         \o SemGlifos(Tail(s))

\* Lines 747 and 782: re.sub(r'\s+', ' ', s).strip().
LimpaEspacos(s) == Join(SplitWs(s), " ")

\* Line 748: re.sub(r'[-]\s*$', '', s).strip() (the dash U+2013 is not among
\* the characters of the model).
SemTracoFinal(s) ==
    LET t == RStrip(s)
    IN IF t # "" /\ Char(t, Len(t)) = "-"
       THEN Strip(SubSeq(t, 1, Len(t) - 1))
       ELSE Strip(s)

\* Line 751: the leftmost match of \s*\([A-Z]{2}\)\s* in s, as the pair of
\* the number of characters before it and the position of its last one.
SufixoDePais(s) ==
    LET abre == {q \in 1..Len(s) :
                    /\ q + 3 <= Len(s)
                    /\ Char(s, q) = "(" /\ IsUpper(Char(s, q + 1))
                    /\ IsUpper(Char(s, q + 2)) /\ Char(s, q + 3) = ")"}
        q == CHOOSE q \in abre : \A r \in abre : q <= r
        antes == CHOOSE a \in 0..(q - 1) :
                    /\ \A k \in (a + 1)..(q - 1) : IsSpace(Char(s, k))
                    /\ a >= 1 => ~IsSpace(Char(s, a))
        depois == CHOOSE d \in (q + 3)..Len(s) :
                    /\ \A k \in (q + 4)..d : IsSpace(Char(s, k))
                    /\ d < Len(s) => ~IsSpace(Char(s, d + 1))
    IN IF abre = {} THEN << >> ELSE <<antes, depois>>

\* Line 751: casa_sem_parenteses.
RECURSIVE SemSufixoDePais(_)
SemSufixoDePais(s) ==
    LET m == SufixoDePais(s)
    IN IF m = << >> THEN s
       ELSE SubSeq(s, 1, m[1]) \o SemSufixoDePais(SubSeq(s, m[2] + 1, Len(s)))

CasaSemParenteses(casa_aposta) == Strip(SemSufixoDePais(casa_aposta))

\* Lines 754 and 778: re.sub(r'\b' + re.escape(w) + r'\b', '', s,
\* flags=re.IGNORECASE), for the part of s after its first p0 characters.
RECURSIVE RemovePalavraDe(_, _, _)
RemovePalavraDe(s, w, p0) ==
    LET achadas == {p \in p0..(Len(s) - Len(w)) :
                       /\ Lower(SubSeq(s, p + 1, p + Len(w))) = Lower(w)
                       /\ Fronteira(s, p) /\ Fronteira(s, p + Len(w))}
    IN IF achadas = {} THEN SubSeq(s, p0 + 1, Len(s))
       ELSE LET p == CHOOSE p \in achadas : \A r \in achadas : p <= r
            IN SubSeq(s, p0 + 1, p) \o RemovePalavraDe(s, w, p + Len(w))

RemovePalavra(s, w) == IF w = "" THEN s ELSE RemovePalavraDe(s, w, 0)

\* Lines 758-770: casas_conhecidas, in the order of the dict.
casas_conhecidas ==
    << <<"estrela", <<"EstrelaBet", "Estrela">> >>,
       <<"pinnacle", <<"Pinnacle">> >>,
       <<"marjo", <<"MarjoSports", "Marjo", "Sports">> >>,
       <<"super", <<"SuperBet", "Super">> >>,
       <<"stake", <<"Stake">> >>,
       <<"kto", <<"KTO">> >>,
       <<"blaze", <<"Blaze">> >>,
       <<"multibet", <<"MultiBet", "Multi">> >>,
       <<"bravo", <<"BravoBet", "Bravo">> >>,
       <<"betfast", <<"Betfast">> >>,
       <<"betano", <<"Betano">> >> >>

\* Lines 777-778: the words of one known house removed one after the other.
RECURSIVE RemovePalavras(_, _)
RemovePalavras(s, ws) ==
    IF ws = << >> THEN s ELSE RemovePalavras(RemovePalavra(s, Head(ws)), Tail(ws))

\* Lines 775-779: the first key found in casa_lower decides.
SemPalavrasDaCasa(tipo_aposta, casa_lower) ==
    LET chaves == {k \in DOMAIN casas_conhecidas : Contem(casa_lower, casas_conhecidas[k][1])}
    IN IF chaves = {} THEN tipo_aposta
       ELSE RemovePalavras(tipo_aposta,
                casas_conhecidas[CHOOSE k \in chaves : \A r \in chaves : k <= r][2])

\* Lines 696-782: tipo_aposta.
ExtraiTipo(texto_aposta, casa_aposta, odd, stake, profit) ==
    LET palavras == SplitWs(TipoCompleto(texto_aposta, casa_aposta))
        filtrado == Join(Filtra(palavras, 1, odd, stake, profit), " ")
        limpo == SemTracoFinal(LimpaEspacos(SemGlifos(filtrado)))
        casa_sem_parenteses == CasaSemParenteses(casa_aposta)
        sem_casa == RemovePalavra(limpo, casa_sem_parenteses)
    IN LimpaEspacos(SemPalavrasDaCasa(sem_casa, Lower(casa_sem_parenteses)))

\* processar_aposta_completa, lines 619-790.
processar_aposta_completa(texto_aposta, casa_aposta) ==
    LET odd == ExtraiOdd(texto_aposta)
        stake == ExtraiStake(texto_aposta)
        profit == ExtraiProfit(texto_aposta, odd, stake)
        tipo_aposta == ExtraiTipo(texto_aposta, casa_aposta, odd, stake, profit)
    IN [house |-> Some(casa_aposta),
        odd |-> odd,
        type |-> IF tipo_aposta # "" THEN Some(tipo_aposta) ELSE None,
        stake |-> stake,
        profit |-> profit]

(***************************************************************************)
(* SpecExt: the Field Extractor applied to one leg text.                   *)
(***************************************************************************)
CasasDeAposta == {"Pinnacle", "KTO (BR)"}
Descricoes == {"Vitoria", "Mais de 2.5 gols", "Acima 2.5", "Handicap 1.75 Casa"}
OddsDeAposta == {"", " 1.85", " 55.00", " 1.65 0.00", " 0.00"}
Divisores == {" @ ", " "}
StakesDeAposta == {"", "50.00 USD ", "50 USD ", "5000 USD ", "1.5 USD ", "1.85 BRL "}
ProfitsDeAposta ==
    {"", "9.25", "18.50", "4250.00", "-3.10", "1.85", "1.855", "50.005", "0.00"}

\* The leg texts given to the extractor, each with its house.
LegsDeAposta ==
    {<<c, c \o " " \o d \o o \o v \o s \o l>> :
        c \in CasasDeAposta, d \in Descricoes, o \in OddsDeAposta,
        v \in Divisores, s \in StakesDeAposta, l \in ProfitsDeAposta}

InitExt ==
    /\ AsmParado
    /\ CasaParada
    /\ LinhasParadas
    /\ LacoParado
    /\ SegParado
    /\ fase = "entrada"
    /\ \E leg \in LegsDeAposta : casa_leg = leg[1] /\ texto_leg = leg[2]
    /\ aposta_extraida = << >>

\* One call of processar_aposta_completa(texto_leg, casa_leg).
ExtraiCampos ==
    /\ fase = "entrada"
    /\ aposta_extraida' = processar_aposta_completa(texto_leg, casa_leg)
    /\ fase' = "saida"
    /\ UNCHANGED <<texto_leg, casa_leg, asmVars, casaVars, linhasVars, lacoVars, segVars>>

NextExt == ExtraiCampos

SpecExt == InitExt /\ [][NextExt]_vars

(***************************************************************************)
(* Bet Segmenter, lines 215-364 of extrair_dados_pdf.                      *)
(* Indices count from 1; "@", "~", ">" and "#" stand for the glyphs        *)
(* U+25CF, U+25CB, U+232A and U+F35D.                                      *)
(***************************************************************************)
\* Line 236: the lines phase A steps over.
SeparadoresDeFase == {">", "~", "@", "#", "new"}

\* Lines 241 and 347: a currency or a bullet in the line, or a decimal number
\* (line 347 does not look for U+F35D).
TemDadosFinanceiros(l, marcas) ==
    \/ \E s \in marcas : Contem(l, s)
    \/ TemDecimal(l)

MarcasFaseA == {"USD", "BRL", "@", "~", "#"}
MarcasFaseB == {"USD", "BRL", "@", "~"}

\* re.search(r'\b(w1|w2|...)\b', s) for a set of literal words.
ContemPalavra(s, ws) ==
    \E w \in ws : \E p \in 0..(Len(s) - Len(w)) :
        /\ SubSeq(s, p + 1, p + Len(w)) = w
        /\ Fronteira(s, p) /\ Fronteira(s, p + Len(w))

\* Line 265: the words that cannot start a house name.
PalavrasDeTipoFaseA ==
    {"gol", "time", "canto", "cantos", "escanteio", "escanteios", "acima", "abaixo"}

\* Line 348: the words of a bet-type continuation (the two ordinals written
\* with U+00BA are not among the characters of the model).
PalavrasDeTipoFaseB ==
    {"gol", "time", "canto", "cantos", "escanteio", "escanteios", "resultado",
     "final", "tempo", "minuto", "chute", "corner", "primeiro", "segundo",
     "over", "under", "acima", "abaixo", "casa", "fora", "empate", "handicap"}

\* Line 343: the keywords that end the legs of the slip.
PalavrasDeFim == {"Aposta total", "Mostrar", "Use sua", "Arredondar"}

\* Line 252: re.match(r'^\([A-Z]{2}\)$', proxima_linha).
EhSufixoDePais(l) ==
    /\ Len(l) = 4
    /\ Char(l, 1) = "(" /\ IsUpper(Char(l, 2)) /\ IsUpper(Char(l, 3)) /\ Char(l, 4) = ")"

\* Lines 246-280: what phase A takes from the line as a fragment of the house
\* name, << >> when the line ends phase A. nova_casa is the house detected
\* in the line.
FragmentoDaCasa(l, nova_casa) ==
    LET palavras == SplitWs(l)
    IN IF Len(l) >= 30 \/ nova_casa # None THEN << >>
       ELSE IF EhSufixoDePais(l) THEN <<l>>
       ELSE IF Len(palavras) = 1 /\ IsUpper(Char(l, 1)) THEN <<l>>
       ELSE IF /\ IsUpper(Char(l, 1))
               /\ IsUpper(Char(palavras[1], 1))
               /\ ~ContemPalavra(Lower(palavras[1]), PalavrasDeTipoFaseA)
            THEN <<palavras[1]>>
       ELSE << >>

\* Line 268: resto, the words of the line after the first one.
RestoDaLinha(l) == Join(Tail(SplitWs(l)), " ")

\* Lines 325 and 335-336: the first word of a house name, "" for no house.
BaseDaCasa(c) == IF c = None \/ SplitWs(Val(c)) = << >> THEN "" ELSE SplitWs(Val(c))[1]

\* Lines 310-329: the first word of the line starts a known house other than
\* the current one. possivel_casa is the house detected in that word.
PrimeiraPalavraDeOutraCasa(l, possivel_casa, casa_atual) ==
    LET palavras_linha == SplitWs(Strip(l))
        primeira_palavra == palavras_linha[1]
    IN /\ palavras_linha # << >>
       /\ Len(primeira_palavra) >= 3 /\ Len(primeira_palavra) <= 15
       /\ IsUpper(Char(primeira_palavra, 1))
       /\ ~TemDecimal(l)
       /\ possivel_casa # None
       /\ Lower(BaseDaCasa(Some(casa_atual))) # Lower(primeira_palavra)

\* Lines 332-340: the line holds a house whose first word differs from the
\* first word of the current house.
OutraCasa(casa_na_proxima, casa_atual) ==
    /\ casa_na_proxima # None
    /\ Lower(BaseDaCasa(Some(casa_atual))) # Lower(BaseDaCasa(casa_na_proxima))

\* Lines 347-351: the line goes into the text of the leg.
LinhaDoCorpo(l) ==
    \/ TemDadosFinanceiros(l, MarcasFaseB)
    \/ /\ ContemPalavra(Lower(l), PalavrasDeTipoFaseB)
       /\ Len(SplitWs(l)) <= 6

\* Lines 288-293: the special case of the fragmented "Marjo Sports (BR)".
CorrigeMarjo(casa, lidas) ==
    IF /\ StartsWith(casa, "Marjo") /\ ~Contem(casa, "Sports")
       /\ \E k \in DOMAIN lidas : Contem(lidas[k], "Sports")
    THEN "Marjo Sports (BR)"
    ELSE casa

(***************************************************************************)
(* SpecSeg: the Bet Segmenter walking the lines of one page. The page is   *)
(* read line by line: LePagina gives the loop the next line when it asks   *)
(* for a line not read yet, or tells it that the page has ended.           *)
(***************************************************************************)
MaxLinhasSeg == 9

\* Lines that open a leg.
LinhasComCasa == {"William", "Pinnacle 2.10", "Betfair (BR) 2.10"}

\* Lines that follow the first line of a leg.
LinhasDepoisDaCasa ==
    {"Hill", "Hill escanteios", "@", "Betfair SB (ES) 3.40", "Pinnacle 2.10"}

\* detectar_casa_apostas on every text the segmenter gives it (lines 220,
\* 247, 321 and 332): the lines and their first words.
casa_da_linha ==
    [l \in LinhasComCasa \cup LinhasDepoisDaCasa
           \cup {SplitWs(m)[1] : m \in LinhasComCasa \cup LinhasDepoisDaCasa}
        |-> detectar_casa_apostas(l)]

InitSeg ==
    /\ AsmParado
    /\ CasaParada
    /\ LinhasParadas
    /\ LacoParado
    /\ ExtParado
    /\ fase = "busca"
    /\ linhas = << >> /\ fim_pagina = FALSE
    /\ i_seg = 1 /\ j_seg = 0
    /\ casa_encontrada = "" /\ texto_coletado = "" /\ fragmentos_casa = << >>
    /\ linhas_usadas_fragmentos = {} /\ linhas_parcialmente_usadas = {}
    /\ linhas_do_corpo = {} /\ entregues = << >> /\ apostas_pagina = << >>

foraDoSeg == <<asmVars, casaVars, linhasVars, lacoVars, extVars>>

\* Line 232: j < len(linhas) and j < i + 4; line 296: ... j < i + 8.
DentroDaFaseA(i, j) == j < i + 4
\* Mutant of DentroDaFaseB: one line more.
DentroDaFaseBLarga(i, j) == j < i + 9
DentroDaFaseB(i, j) == j < i + 8

\* The loop at hand asks for a line of the page that was not read yet.
PedeLinha ==
    \/ fase = "busca" /\ i_seg = Len(linhas) + 1
    \/ fase = "faseA" /\ j_seg = Len(linhas) + 1 /\ DentroDaFaseA(i_seg, j_seg)
    \/ fase = "faseB" /\ j_seg = Len(linhas) + 1 /\ DentroDaFaseB(i_seg, j_seg)

\* The pages under study: the lines within reach of the fragments of the
\* first leg vary; the lines after them hold the glyph of a value only.
LinhasDeValores == {"@"}

LinhasDaPosicao(n) ==
    IF ~DentroDaFaseA(1, n) THEN LinhasDeValores
    ELSE IF fase = "busca" THEN LinhasComCasa
    ELSE LinhasDepoisDaCasa

\* Line 112: the next line of linhas, or the end of the page.
LePagina ==
    /\ ~fim_pagina
    /\ PedeLinha
    /\ \/ /\ Len(linhas) < MaxLinhasSeg
          /\ \E l \in LinhasDaPosicao(Len(linhas) + 1) :
                linhas' = Append(linhas, l)
          /\ UNCHANGED fim_pagina
       \/ /\ fim_pagina' = TRUE
          /\ UNCHANGED linhas
    /\ UNCHANGED <<fase, i_seg, j_seg, casa_encontrada, texto_coletado, fragmentos_casa,
                   linhas_usadas_fragmentos, linhas_parcialmente_usadas,
                   linhas_do_corpo, entregues, apostas_pagina, foraDoSeg>>

\* Lines 216-231: the line at i holds a house: a leg starts.
SegComCasa ==
    /\ fase = "busca" /\ i_seg <= Len(linhas)
    /\ casa_da_linha[linhas[i_seg]] # None
    /\ casa_encontrada' = Val(casa_da_linha[linhas[i_seg]])
    /\ texto_coletado' = linhas[i_seg]
    /\ j_seg' = i_seg + 1
    /\ fragmentos_casa' = << >>
    /\ linhas_usadas_fragmentos' = {}
    /\ linhas_parcialmente_usadas' = {}
    /\ linhas_do_corpo' = {}
    /\ fase' = "faseA"
    /\ UNCHANGED <<linhas, fim_pagina, i_seg, entregues, apostas_pagina, foraDoSeg>>

\* Lines 216-222 and 363-364: no house in the line at i.
SegSemCasa ==
    /\ fase = "busca" /\ i_seg <= Len(linhas)
    /\ casa_da_linha[linhas[i_seg]] = None
    /\ i_seg' = i_seg + 1
    /\ UNCHANGED <<fase, linhas, fim_pagina, j_seg, casa_encontrada, texto_coletado,
                   fragmentos_casa, linhas_usadas_fragmentos, linhas_parcialmente_usadas,
                   linhas_do_corpo, entregues, apostas_pagina, foraDoSeg>>

\* Line 216: the loop ends with the page.
SegFim ==
    /\ fase = "busca" /\ i_seg > Len(linhas) /\ fim_pagina
    /\ fase' = "fim"
    /\ UNCHANGED <<segVars, foraDoSeg>>

LinhaJ == Strip(linhas[j_seg])

\* Line 232: the condition of the loop of phase A.
FaseAContinua == j_seg <= Len(linhas) /\ DentroDaFaseA(i_seg, j_seg)

\* Lines 241-280: the line at j ends phase A.
FaseAQuebra ==
    \/ TemDadosFinanceiros(LinhaJ, MarcasFaseA)
    \/ FragmentoDaCasa(LinhaJ, casa_da_linha[LinhaJ]) = << >>

\* Lines 236-238: an empty line or a separator is stepped over.
FaseAPula ==
    /\ fase = "faseA" /\ FaseAContinua
    /\ LinhaJ = "" \/ LinhaJ \in SeparadoresDeFase
    /\ j_seg' = j_seg + 1
    /\ UNCHANGED <<fase, linhas, fim_pagina, i_seg, casa_encontrada, texto_coletado,
                   fragmentos_casa, linhas_usadas_fragmentos, linhas_parcialmente_usadas,
                   linhas_do_corpo, entregues, apostas_pagina, foraDoSeg>>

\* Lines 246-272: the line, or its first word, is taken as a fragment of the
\* house name.
FaseAFragmento ==
    /\ fase = "faseA" /\ FaseAContinua
    /\ ~(LinhaJ = "" \/ LinhaJ \in SeparadoresDeFase)
    /\ ~FaseAQuebra
    /\ fragmentos_casa' =
          fragmentos_casa \o FragmentoDaCasa(LinhaJ, casa_da_linha[LinhaJ])
    /\ linhas_usadas_fragmentos' = linhas_usadas_fragmentos \cup {j_seg}
    /\ linhas_parcialmente_usadas' =
          IF FragmentoDaCasa(LinhaJ, casa_da_linha[LinhaJ]) # <<LinhaJ>>
             /\ RestoDaLinha(LinhaJ) # ""
          THEN linhas_parcialmente_usadas \cup {<<j_seg, RestoDaLinha(LinhaJ)>>}
          ELSE linhas_parcialmente_usadas
    /\ j_seg' = j_seg + 1
    /\ UNCHANGED <<fase, linhas, fim_pagina, i_seg, casa_encontrada, texto_coletado,
                   linhas_do_corpo, entregues, apostas_pagina, foraDoSeg>>

\* Lines 232, 242 and 273-293: phase A ends; the fragments are added to the
\* name of the house.
FaseAPara ==
    /\ fase = "faseA"
    /\ \/ ~DentroDaFaseA(i_seg, j_seg)
       \/ j_seg > Len(linhas) /\ fim_pagina
       \/ /\ FaseAContinua
          /\ ~(LinhaJ = "" \/ LinhaJ \in SeparadoresDeFase)
          /\ FaseAQuebra
    /\ casa_encontrada' =
          CorrigeMarjo(IF fragmentos_casa # << >>
                       THEN casa_encontrada \o " " \o Join(fragmentos_casa, " ")
                       ELSE casa_encontrada,
                       SubSeq(linhas, i_seg, Min(j_seg - 1, Len(linhas))))
    /\ fase' = "faseB"
    /\ UNCHANGED <<linhas, fim_pagina, i_seg, j_seg, texto_coletado,
                   fragmentos_casa, linhas_usadas_fragmentos, linhas_parcialmente_usadas,
                   linhas_do_corpo, entregues, apostas_pagina, foraDoSeg>>

\* Lines 359-360: the leg is kept when it has house and odd.
Guarda(apostas, aposta) ==
    IF ApostaValida(aposta) THEN Append(apostas, aposta) ELSE apostas

\* Line 296: the condition of the loop of phase B.
FaseBContinua == j_seg <= Len(linhas) /\ DentroDaFaseB(i_seg, j_seg)

\* Lines 310-355: the line at j ends phase B.
FaseBQuebra ==
    \/ PrimeiraPalavraDeOutraCasa(linhas[j_seg],
            casa_da_linha[SplitWs(linhas[j_seg])[1]], casa_encontrada)
    \/ OutraCasa(casa_da_linha[linhas[j_seg]], casa_encontrada)
    \/ \E keyword \in PalavrasDeFim : Contem(linhas[j_seg], keyword)
    \/ ~LinhaDoCorpo(linhas[j_seg])

\* Lines 299-305 and 351-353: the loop moves on, with the rest of a line
\* used in phase A or with the whole line added to the text of the leg.
FaseBAvanca ==
    /\ fase = "faseB" /\ FaseBContinua
    /\ IF j_seg \in linhas_usadas_fragmentos
       THEN /\ texto_coletado' =
                 IF \E par \in linhas_parcialmente_usadas : par[1] = j_seg
                 THEN texto_coletado \o " " \o
                      (CHOOSE par \in linhas_parcialmente_usadas : par[1] = j_seg)[2]
                 ELSE texto_coletado
            /\ UNCHANGED linhas_do_corpo
       ELSE /\ ~FaseBQuebra
            /\ texto_coletado' = texto_coletado \o " " \o linhas[j_seg]
            /\ linhas_do_corpo' = linhas_do_corpo \cup {j_seg}
    /\ j_seg' = j_seg + 1
    /\ UNCHANGED <<fase, linhas, fim_pagina, i_seg, casa_encontrada,
                   fragmentos_casa, linhas_usadas_fragmentos, linhas_parcialmente_usadas,
                   entregues, apostas_pagina, foraDoSeg>>

\* Mutant of ProximoCursor: the outer loop goes on at the line after the
\* house line.
ProximoCursorDepoisDaCasa(i, j) == i + 1
\* Line 362: i = j.
ProximoCursor(i, j) == j

\* Lines 296, 329, 340, 344, 355 and 358-362: phase B ends; the text goes to
\* the Field Extractor, the leg is kept when it has house and odd, and the
\* outer loop goes on at j.
FaseBPara ==
    /\ fase = "faseB"
    /\ \/ ~DentroDaFaseB(i_seg, j_seg)
       \/ j_seg > Len(linhas) /\ fim_pagina
       \/ /\ FaseBContinua
          /\ j_seg \notin linhas_usadas_fragmentos
          /\ FaseBQuebra
    /\ entregues' = Append(entregues, <<texto_coletado, casa_encontrada>>)
    /\ apostas_pagina' =
          Guarda(apostas_pagina, processar_aposta_completa(texto_coletado, casa_encontrada))
    /\ i_seg' = ProximoCursor(i_seg, j_seg)
    /\ fase' = "busca"
    /\ UNCHANGED <<linhas, fim_pagina, j_seg, casa_encontrada, texto_coletado,
                   fragmentos_casa, linhas_usadas_fragmentos, linhas_parcialmente_usadas,
                   linhas_do_corpo, foraDoSeg>>

NextSeg ==
    \/ LePagina
    \/ SegComCasa
    \/ SegSemCasa
    \/ SegFim
    \/ FaseAPula
    \/ FaseAFragmento
    \/ FaseAPara
    \/ FaseBAvanca
    \/ FaseBPara

SpecSeg == InitSeg /\ [][NextSeg]_vars

(***************************************************************************)
(* SpecTermina: the loop of the reassembler on a raw page text, or the     *)
(* loops of the Bet Segmenter on the lines of a page. The program runs its *)
(* next statement as long as it has one: weak fairness of the steps of the *)
(* reassembler, and, for the Bet Segmenter, steps again and again until    *)
(* its loops are left (SegTemPasso shows that a loop that was not left     *)
(* has a next statement).                                                  *)
(***************************************************************************)
InitLacos == InitLaco \/ InitSeg

NextLacos == NextLaco \/ NextSeg

\* The Bet Segmenter is inside one of its loops.
SegNoLaco == fase \in {"busca", "faseA", "faseB"}

SpecTermina ==
    /\ InitLacos /\ [][NextLacos]_vars
    /\ WF_vars(NextLaco)
    /\ ([]<>(~SegNoLaco) \/ []<><<NextSeg>>_vars)

(***************************************************************************)
(* Claims about the Record Assembler and main(), checked under Spec.       *)
(***************************************************************************)
NumValidas(h) == Cardinality({k \in DOMAIN h.validas : h.validas[k]})
Retornou == ret # None
Slots == <<"bet1", "bet2", "bet3">>

\* C1: for a two-page document whose page 1 yields the team names and exactly
\* one valid leg and whose page 2 yields exactly one valid leg, the returned
\* record holds the leg of page 1 in bet1 and the leg of page 2 in bet2.
C1_DuasPaginasCombinadas ==
    (/\ Retornou
     /\ Len(hist) = 2 /\ hist[1].pronto /\ hist[2].pronto
     /\ hist[1].times
     /\ NumValidas(hist[1]) = 1 /\ NumValidas(hist[2]) = 1)
    => /\ Val(ret).bet1 = detectadas[1]
       /\ Val(ret).bet2 = detectadas[2]

\* C2: when page 1 yields the team names and valid legs 1 and 2 but the third
\* candidate leg fails extraction, and the document has a second page, the
\* scan does not end with page 1: page 2 is read before the function returns.
C2_TerceiraFalhaContinua ==
    (/\ Retornou
     /\ Len(hist) >= 1 /\ hist[1].pronto
     /\ hist[1].times
     /\ hist[1].validas = <<TRUE, TRUE, FALSE>>
     /\ npages >= 2)
    => Len(hist) >= 2

\* The stop condition as the specification words it, "set" read as Python
\* reads it: neither None nor the empty string.
Definido(o) == o # None /\ Val(o) # ""
ParadaDaSpec(d, legs_detected) ==
    /\ Definido(d.teamA) /\ Definido(d.teamB)
    /\ Definido(d.bet1.house) /\ Definido(d.bet2.house)
    /\ (legs_detected < 3 \/ Definido(d.bet3.house))

\* C3: once a page has been processed the scan stops (the function returns
\* without reading another page) exactly when teamA, teamB, bet1.house and
\* bet2.house are all set and fewer than 3 legs were detected or bet3.house is
\* set; otherwise the next page is read if it is one of the first two pages;
\* no page beyond the second is ever read.
C3_ParadaExata ==
    [][/\ pc = "map" =>
            /\ (pc' = "print") <=> ParadaDaSpec(dados', Len(apostas_encontradas))
            /\ (pc' # "print") => (pc' = "loop" /\ Len(hist') = Len(hist))
       /\ (pc = "loop" /\ pagina < 2 /\ pagina < npages) =>
            (pagina' = pagina + 1 /\ Len(hist') = Len(hist) + 1)
       /\ (pc = "loop" /\ ~(pagina < 2 /\ pagina < npages)) =>
            (pc' = "print" /\ hist' = hist)
       /\ pagina' <= 2 /\ Len(hist') <= 2]_vars

\* C3 witness: page 1 was processed without meeting the stop condition, page 2
\* was read, and the third page of the document was left unread.
C3_Witness ==
    /\ Retornou /\ npages = 3
    /\ Len(hist) = 2 /\ hist[1].pronto /\ hist[2].pronto

\* C4: in the returned record bet1, bet2 and bet3 hold the first, second and
\* third valid leg detected in document order over all pages processed; a leg
\* detected later never replaces an earlier one.
C4_OrdemNoDocumento ==
    Retornou =>
        \A k \in 1..3 :
            Val(ret)[Slots[k]] =
                IF k <= Len(detectadas) THEN detectadas[k] ELSE bet_vazia

\* C5 as claimed: when processing page 1 raises and the document has a second
\* page, page 2 is still read.
C5_PaginaSeguinteProcessada ==
    (Retornou /\ Len(hist) >= 1 /\ hist[1].excecao /\ npages >= 2) => Len(hist) >= 2

\* C5 as amended: an exception raised while page 1 is read or processed ends
\* the page loop; it is caught inside extrair_dados_pdf, which returns without
\* reading page 2.
C5_ExcecaoEncerraLaco ==
    (Len(hist) >= 1 /\ hist[1].excecao) =>
        /\ Len(hist) = 1
        /\ pc \in {"except", "print", "main_except", "exit"}
        /\ (pc # "except" => Retornou)

C5_Witness ==
    /\ Len(hist) = 1 /\ hist[1].excecao /\ npages >= 2 /\ Retornou

\* C6: when opening the document raises, the process writes the minimal
\* all-null object without the bet3 key to standard output and exits with
\* status 1.
C6_ErroDeEntradaFalha ==
    (pc = "exit" /\ argc = 2 /\ ~doc_ok) =>
        (stdout = Some(dados_vazio) /\ exit_code = 1)

\* C7: when a page raises, extrair_dados_pdf does not propagate the exception;
\* it returns a record with the full key shape in which every field assigned
\* before the exception holds the value assigned and every other field is None.
PaginaLevantou == \E p \in DOMAIN hist : hist[p].excecao
FormaCompleta(d) ==
    /\ DOMAIN d = DadosKeys
    /\ \A b \in {"bet1", "bet2", "bet3"} : DOMAIN d[b] = BetKeys
C7_ExcecaoDevolveParcial ==
    PaginaLevantou =>
        /\ pc = "main_except" => erro = "print"
        /\ pc # "except" =>
             /\ Retornou
             /\ FormaCompleta(Val(ret))
             /\ \A c \in Caminhos : Campo(Val(ret), c) = escrito[c]

\* C7 witness: page 2 raised after page 1 had filled fields of the record.
C7_Witness ==
    /\ Retornou /\ Len(hist) = 2 /\ hist[2].excecao
    /\ Val(ret).teamA # None /\ Val(ret).bet1.house # None /\ Val(ret).bet2.house = None

(***************************************************************************)
(* Claims about the House Detector (SpecCasa).                             *)
(***************************************************************************)
\* The entries of the list present in the line under the rules of lines 560-590.
Presentes(s) == {h \in Gazetteer : CasaPresente(h, Lower(s))}

\* C8: for every entry h of the list, detectar_casa_apostas applied to a line
\* equal to exactly h returns h.
C8_CadaCasaDetectada ==
    (fase = "saida" /\ linha_entrada \in Gazetteer)
        => casa_detectada = Some(linha_entrada)

\* C9: the entries are tried by descending length, an entry with a
\* parenthetical suffix before a bare entry of the same length; so whenever
\* entries of the list are present in the line, the detector returns a present
\* entry of maximal length (one with a suffix when such an entry has that
\* length): a shorter name never pre-empts a longer present one.
C9_MaiorCasaVence ==
    /\ \A r, q \in DOMAIN casas_ordenadas :
          r < q =>
            /\ Len(casas_ordenadas[r]) >= Len(casas_ordenadas[q])
            /\ (/\ Len(casas_ordenadas[r]) = Len(casas_ordenadas[q])
                /\ TemParentese(casas_ordenadas[q])) => TemParentese(casas_ordenadas[r])
    /\ (fase = "saida" /\ Presentes(linha_entrada) # {}) =>
          /\ casa_detectada # None
          /\ Val(casa_detectada) \in Presentes(linha_entrada)
          /\ \A h \in Presentes(linha_entrada) :
                /\ Len(h) <= Len(Val(casa_detectada))
                /\ (Len(h) = Len(Val(casa_detectada)) /\ TemParentese(h))
                      => TemParentese(Val(casa_detectada))

\* A line in which a shorter entry, a longest entry with a suffix and a bare
\* entry of that same length are all present, and the one with the suffix is
\* returned.
C9_Witness ==
    /\ fase = "saida"
    /\ \E h, g, k \in Presentes(linha_entrada) :
          /\ Len(h) < Len(g) /\ Len(k) = Len(g)
          /\ TemParentese(g) /\ ~TemParentese(k)
          /\ casa_detectada = Some(g)
          /\ \A m \in Presentes(linha_entrada) : Len(m) <= Len(g)

(***************************************************************************)
(* Claims about the Line Reassembler (SpecLinhas).                         *)
(***************************************************************************)
\* A line followed by a line the reassembler would join to it: a suffix-only
\* line (lines 24-25), or a continuation of a line with odds (lines 33-51).
ParContinuavel(lines, i) ==
    /\ Strip(lines[i]) # ""
    /\ \/ Strip(lines[i + 1]) \in Sufixos
       \/ TemOddsUsd(Strip(lines[i])) /\ EhContinuacao(Strip(lines[i + 1]))

SemParContinuavel(texto) ==
    LET lines == Split(texto, "\n")
    IN \A i \in 1..(Len(lines) - 1) : ~ParContinuavel(lines, i)

\* The number of non-blank lines of a text.
LinhasNaoVazias(texto) ==
    LET lines == Split(texto, "\n")
    IN Cardinality({i \in DOMAIN lines : Strip(lines[i]) # ""})

\* C10 as stated: for every page text, the reassembler applied to its own
\* output returns that output unchanged.
C10_IdempotenteSempre ==
    fase = "duas" => segunda_passagem = primeira_passagem

\* C10: when the output of the reassembler contains no continuable pair, the
\* reassembler applied to that output returns it unchanged.
C10_IdempotenteSemPares ==
    (fase = "duas" /\ SemParContinuavel(Val(primeira_passagem)))
        => segunda_passagem = primeira_passagem

\* The first pass joined two lines, its output contains no continuable pair,
\* and the second pass has run.
C10_Witness ==
    /\ fase = "duas"
    /\ SemParContinuavel(Val(primeira_passagem))
    /\ Val(primeira_passagem) # ""
    /\ LinhasNaoVazias(Val(primeira_passagem)) < LinhasNaoVazias(texto_bruto)
    /\ segunda_passagem = primeira_passagem

(***************************************************************************)
(* Claims about the loop of the Line Reassembler (SpecLaco).               *)
(***************************************************************************)
\* The loop and the function agree on the text returned.
LacoIgualFuncao ==
    fase = "fim" =>
        texto_processado = Some(preprocessar_linhas_quebradas(Join(lines_pagina, "\n")))

\* C11: whenever the current line is not blank and the raw line right after it
\* trims to one of the listed suffixes, the iteration emits exactly one line,
\* "<current> <suffix>" with a single space, and consumes both raw lines,
\* whether or not the current line also carries odds in USD.
C11_SufixoJuntado ==
    [][(/\ fase = "laco" /\ i_laco + 1 <= Len(lines_pagina)
        /\ Strip(lines_pagina[i_laco]) # ""
        /\ Strip(lines_pagina[i_laco + 1]) \in
              {"(BR)", "(CO)", "(PT)", "(RO)", "(BE)", "(MX)", "(UK)", "(ZA)", "(SE)"})
       => /\ lines_processadas' =
                Append(lines_processadas,
                       Strip(lines_pagina[i_laco]) \o " " \o Strip(lines_pagina[i_laco + 1]))
          /\ i_laco' = i_laco + 2]_vars

\* A line with odds in USD was followed by a suffix-only line, and the two
\* were emitted as one line.
C11_Witness ==
    /\ fase = "laco" /\ i_laco >= 3
    /\ lines_processadas # << >>
    /\ origem[Len(origem)] = i_laco - 2
    /\ Contem(lines_pagina[i_laco - 2], "USD")
    /\ Strip(lines_pagina[i_laco - 1]) \in Sufixos
    /\ lines_processadas[Len(lines_processadas)] =
          Strip(lines_pagina[i_laco - 2]) \o " " \o Strip(lines_pagina[i_laco - 1])

\* C12: every emitted line is non-empty after trimming, the emitted lines are
\* in the order of the raw lines they start with, and there are never more
\* emitted lines than non-blank raw lines.
C12_SaidaOrdenadaNaoVazia ==
    /\ \A k \in DOMAIN lines_processadas : Strip(lines_processadas[k]) # ""
    /\ Len(origem) = Len(lines_processadas)
    /\ \A k \in DOMAIN origem :
          /\ origem[k] \in DOMAIN lines_pagina
          /\ StartsWith(lines_processadas[k], Strip(lines_pagina[origem[k]]))
          /\ k > 1 => origem[k - 1] < origem[k]
    /\ Len(lines_processadas) <=
          Cardinality({k \in DOMAIN lines_pagina : Strip(lines_pagina[k]) # ""})
    /\ fase = "fim" =>
          (Val(texto_processado) # "" =>
              Split(Val(texto_processado), "\n") = lines_processadas)

\* A text with a blank line and two non-blank lines has been returned as one
\* joined line.
C12_Witness ==
    /\ fase = "fim"
    /\ \E k \in DOMAIN lines_pagina : Strip(lines_pagina[k]) = ""
    /\ Len(lines_processadas) = 1
    /\ Cardinality({k \in DOMAIN lines_pagina : Strip(lines_pagina[k]) # ""}) = 2

(***************************************************************************)
(* Claims about the Field Extractor (SpecExt).                             *)
(***************************************************************************)
\* C13: for a leg text "<House> <words> n <words> <bullet> <stake> USD
\* <profit>" in which the decimal n follows a word that is not a bet-type
\* keyword, the extracted type is the description with n retained.
C13_NumeroDaDescricaoMantido ==
    \A d \in {"Mais de 2.5 gols", "Handicap 1.75 Casa"} :
        (/\ fase = "saida"
         /\ texto_leg = casa_leg \o " " \o d \o " @ " \o "50.00 USD " \o "9.25")
            => aposta_extraida.type = Some(d)

\* The descriptive part of a leg text: what precedes the first bullet glyph,
\* or the first USD/BRL when there is no bullet, or else the whole text.
ParteDescritiva(t) ==
    LET bs == {k \in 1..Len(t) : Char(t, k) \in {"@", "~", "#"}}
        ms == {k \in 1..(Len(t) - 2) : SubSeq(t, k, k + 2) \in {"USD", "BRL"}}
    IN IF bs # {} THEN Strip(SubSeq(t, 1, (CHOOSE k \in bs : \A q \in bs : k <= q) - 1))
       ELSE IF ms # {} THEN Strip(SubSeq(t, 1, (CHOOSE k \in ms : \A q \in ms : k <= q) - 1))
       ELSE t

\* The odd the text determines: the last decimal number of the descriptive
\* part that lies in [1.0, 50.0], else its last decimal number, else null.
OddDaDescricao(t) ==
    LET ns == Decimais(ParteDescritiva(t))
        naFaixa == {k \in DOMAIN ns : Valor(ns[k]) >= 1000 /\ Valor(ns[k]) <= 50000}
    IN IF ns = << >> THEN None
       ELSE IF naFaixa # {}
            THEN Some(Valor(ns[CHOOSE k \in naFaixa : \A q \in naFaixa : q <= k]))
            ELSE Some(Valor(ns[Len(ns)]))

\* C14: the odd returned is computed only from the decimal numbers of the
\* descriptive part: the last one in [1.0, 50.0]; when none is in that range,
\* the last one; when there is no decimal number, null.
C14_OddDaParteDescritiva ==
    fase = "saida" => aposta_extraida.odd = OddDaDescricao(texto_leg)

\* A description with two numbers in the range, followed by a bullet, a stake
\* and a profit: the odd is the second number of the description.
C14_Witness ==
    /\ fase = "saida"
    /\ Contem(texto_leg, "@")
    /\ LET ns == Decimais(ParteDescritiva(texto_leg))
       IN /\ Len(ns) = 2
          /\ Valor(ns[1]) >= 1000 /\ Valor(ns[1]) <= 50000
          /\ Valor(ns[2]) >= 1000 /\ Valor(ns[2]) <= 50000
          /\ Valor(ns[1]) # Valor(ns[2])
          /\ aposta_extraida.odd = Some(Valor(ns[2]))
    /\ aposta_extraida.stake # None
    /\ aposta_extraida.profit # None

\* The first "<number> <USD|BRL>" of a text, as the pair of the number of
\* characters before it and the position of the last character of the number.
PrimeiroStake(t) ==
    LET inicios == {p \in 0..Len(t) : FimDoStake(t, p) > 0}
        p == CHOOSE p \in inicios : \A q \in inicios : p <= q
    IN IF inicios = {} THEN << >> ELSE <<p, FimDoStake(t, p)>>

\* C15: stake is the number of the first "<number> <USD|BRL>" of the leg
\* text; when that number is followed by decimal numbers, profit is the last
\* of them; profit is never negative.
C15_ProfitDepoisDoStake ==
    (fase = "saida" /\ PrimeiroStake(texto_leg) # << >>) =>
        LET m == PrimeiroStake(texto_leg)
            depois == Decimais(SubSeq(texto_leg, m[2] + 1, Len(texto_leg)))
        IN /\ aposta_extraida.stake = Some(Valor(SubSeq(texto_leg, m[1] + 1, m[2])))
           /\ depois # << >> =>
                 aposta_extraida.profit = Some(Valor(depois[Len(depois)]))
           /\ aposta_extraida.profit # None => Val(aposta_extraida.profit) >= 0

(***************************************************************************)
(* Claims about the legs written into the record (Spec).                   *)
(***************************************************************************)
SlotVazioOuCompleto(d, b) ==
    \/ \A k \in BetKeys : d[b][k] = None
    \/ d[b].house # None /\ d[b].odd # None

\* C16: in the record under construction and in every record returned, each
\* of bet1, bet2, bet3 has either its five fields null or a non-null house and
\* a non-null odd: a candidate leg without both is never kept nor written.
C16_SlotVazioOuCompleto ==
    /\ \A b \in {"bet1", "bet2", "bet3"} : SlotVazioOuCompleto(dados, b)
    /\ \A k \in DOMAIN apostas_encontradas :
          apostas_encontradas[k].house # None /\ apostas_encontradas[k].odd # None
    /\ ret # None =>
          \A b \in {"bet1", "bet2", "bet3"} : SlotVazioOuCompleto(Val(ret), b)

\* A page gave a candidate leg without odd between two complete legs, and the
\* record returned holds the two complete legs only.
C16_Witness ==
    /\ ret # None
    /\ \E p \in DOMAIN hist : hist[p].validas = <<TRUE, FALSE, TRUE>>
    /\ Val(ret).bet1.house # None /\ Val(ret).bet1.odd # None
    /\ Val(ret).bet2.house # None /\ Val(ret).bet2.odd # None
    /\ Val(ret).bet3 = bet_vazia

(***************************************************************************)
(* Claims about the Bet Segmenter (SpecSeg).                               *)
(***************************************************************************)
\* The leg at hand went to the Field Extractor and no other leg has started.
LegEntregue ==
    /\ fase \in {"busca", "fim"}
    /\ entregues # << >>
    /\ entregues[Len(entregues)] = <<texto_coletado, casa_encontrada>>

\* C17: when phase A takes only the first word of a line as a fragment of the
\* house name, the text handed to the Field Extractor holds the rest of that
\* line.
C17_RestoNoTextoEntregue ==
    LegEntregue =>
        \A par \in linhas_parcialmente_usadas : Contem(texto_coletado, par[2])

\* A line that stops phase A according to its description: a separator, or a
\* line with financial data.
SeparadorOuFinanceira(l) ==
    \/ Strip(l) \in SeparadoresDeFase
    \/ TemDadosFinanceiros(Strip(l), MarcasFaseA)

\* C18: phase A stops at the first line that is a separator or holds
\* financial data: no line after such a line is a fragment of the house name.
C18_NenhumFragmentoDepoisDaParada ==
    fase \in {"faseA", "faseB"} =>
        \A k \in linhas_usadas_fragmentos :
            \A m \in (i_seg + 1)..(k - 1) : ~SeparadorOuFinanceira(linhas[m])

\* C19: while a leg whose house line is at i is collected, the fragments of
\* its house name come from the lines i+1 to i+3, the lines of its text from
\* the lines up to i+7, and the leg holds 8 lines at most.
C19_JanelaDaLeg ==
    fase \in {"faseA", "faseB"} =>
        /\ linhas_usadas_fragmentos \subseteq (i_seg + 1)..(i_seg + 3)
        /\ linhas_do_corpo \subseteq (i_seg + 1)..(i_seg + 7)
        /\ Cardinality({i_seg} \cup linhas_usadas_fragmentos \cup linhas_do_corpo) <= 8

\* A leg of 8 lines went to the Field Extractor: its house line, three
\* fragments and four lines of text; the line after them is on the page and
\* is not part of the leg.
C19_Witness ==
    /\ LegEntregue
    /\ fase = "busca"
    /\ i_seg >= 9 /\ i_seg <= Len(linhas)
    /\ linhas_usadas_fragmentos = (i_seg - 7)..(i_seg - 5)
    /\ linhas_do_corpo = (i_seg - 4)..(i_seg - 1)

\* C20: phase B never adds to the text of the leg a line that the House
\* Detector resolves, as a whole, to a house other than the house of the leg.
C20_OutraCasaNuncaNoTexto ==
    fase = "faseB" =>
        \A k \in linhas_do_corpo :
            \/ casa_da_linha[linhas[k]] = None
            \/ Val(casa_da_linha[linhas[k]]) = casa_encontrada

\* The lines of the page that the leg at hand took: as a fragment of the
\* house name or as text.
LinhasDaLeg == linhas_usadas_fragmentos \cup linhas_do_corpo

\* C21: when a leg whose house line is at i has been handled, the cursor of
\* the outer loop moves to j > i, the first line the leg did not take (the
\* lines between are taken by the leg or are separators stepped over); the
\* cursor never moves back and the next leg starts after every line of the
\* leg before it, so no line gives text to two legs.
C21_CursorDepoisDaLeg ==
    [][/\ i_seg' >= i_seg
       /\ (fase = "faseB" /\ fase' = "busca") =>
             /\ i_seg' = j_seg /\ i_seg' > i_seg
             /\ \A k \in LinhasDaLeg : i_seg < k /\ k < i_seg'
             /\ \A k \in (i_seg + 1)..(i_seg' - 1) :
                   k \in LinhasDaLeg \/ Strip(linhas[k]) \in SeparadoresDeFase
       /\ (fase = "busca" /\ fase' = "faseA") =>
             \A k \in LinhasDaLeg : k < i_seg]_vars

\* Two legs went to the Field Extractor, the second one of several lines,
\* and the cursor stands after the last of them.
C21_Witness ==
    /\ LegEntregue
    /\ Len(entregues) = 2
    /\ LinhasDaLeg # {}
    /\ i_seg = j_seg
    /\ \A k \in LinhasDaLeg : k < i_seg

\* A step that reads the page for the Bet Segmenter, not one of its loops.
PassoDeLeitura == linhas' # linhas \/ fim_pagina' # fim_pagina

\* Each iteration leaves its loop or moves the cursor of the loop forward.
CursorAvanca ==
    /\ fase = "laco" => (i_laco' > i_laco \/ fase' = "fim")
    /\ (fase = "faseA" /\ ~PassoDeLeitura) => (j_seg' > j_seg \/ fase' = "faseB")
    /\ (fase = "faseB" /\ ~PassoDeLeitura) =>
          (j_seg' > j_seg \/ (fase' = "busca" /\ i_seg' > i_seg))
    /\ (fase = "busca" /\ ~PassoDeLeitura) =>
          (i_seg' > i_seg \/ fase' \in {"faseA", "fim"})

\* The cursors stay within the lines, and within the windows of the leg.
CursorLimitado ==
    /\ fase = "laco" => i_laco <= Len(lines_pagina) + 1
    /\ fase \in {"busca", "faseA", "faseB"} => i_seg <= Len(linhas) + 1
    /\ fase \in {"faseA", "faseB"} => j_seg <= Len(linhas) + 1
    /\ fase = "faseA" => j_seg <= i_seg + 4
    /\ fase = "faseB" => j_seg <= i_seg + 8

\* A loop of the Bet Segmenter that was not left has a statement to run: on
\* a line that was read, at the end of its window, at the end of the page,
\* or after the next line of the page is read.
SegTemPasso ==
    /\ fase = "busca" => (i_seg <= Len(linhas) \/ fim_pagina \/ PedeLinha)
    /\ fase = "faseA" =>
          \/ FaseAContinua \/ ~DentroDaFaseA(i_seg, j_seg)
          \/ (j_seg > Len(linhas) /\ (fim_pagina \/ PedeLinha))
    /\ fase = "faseB" =>
          \/ FaseBContinua \/ ~DentroDaFaseB(i_seg, j_seg)
          \/ (j_seg > Len(linhas) /\ (fim_pagina \/ PedeLinha))

\* C22: on every page the loop of the reassembler, the loops of phase A and
\* phase B and the outer loop of the Bet Segmenter end: each iteration
\* leaves its loop or moves its cursor forward, and the cursor is bounded by
\* the number of lines (and by i+4 and i+8 in the two phases).
C22_LacosTerminam ==
    /\ <>(fase = "fim")
    /\ [][CursorAvanca]_vars
    /\ [](CursorLimitado /\ SegTemPasso)

\* The Bet Segmenter came to the end of a page of the largest size after
\* handing over two legs or more.
C22_Witness ==
    /\ fase = "fim"
    /\ fim_pagina
    /\ Len(linhas) = MaxLinhasSeg
    /\ Len(entregues) >= 2

(***************************************************************************)
(* Claims about the fallback of the profit (SpecExt).                      *)
(***************************************************************************)
\* The search of lines 674-683 left profit None or 0.0, so that the loop of
\* lines 687-691 has run.
SemProfitPosStake ==
    /\ fase = "saida"
    /\ ~TruthyFloat(ProfitPosStake(texto_leg, aposta_extraida.stake))

\* num is at least tol thousandths away from the value v; None is away from
\* every number.
Distante(num, v, tol) == v = None \/ num - Val(v) >= tol \/ Val(v) - num >= tol

\* The positions, among the decimal numbers ns, of the numbers below 1000
\* that are at least tol thousandths away from stake and odd.
Qualificados(ns, stake, odd, tol) ==
    {k \in DOMAIN ns :
        /\ Valor(ns[k]) < 1000000
        /\ Distante(Valor(ns[k]), stake, tol)
        /\ Distante(Valor(ns[k]), odd, tol)}

\* profit is the last qualified number of the leg text, and resto when no
\* number qualifies.
UltimoQualificado(profit, tol, resto) ==
    \A ns \in {Decimais(texto_leg)} :
        \A q \in {Qualificados(ns, aposta_extraida.stake, aposta_extraida.odd, tol)} :
            IF q = {} THEN profit = resto
            ELSE \A k \in q : (\A r \in q : r <= k) => profit = Some(Valor(ns[k]))

\* C23 (as stated): when the post-stake search yields no profit, profit is the
\* last decimal number of the leg text that is below 1000 and at least 0.01
\* away from both the stake and the odd; a number less than 0.01 away from
\* the stake or the odd is never the profit; when no number qualifies, profit
\* is null.
C23_FallbackComTolerancia ==
    SemProfitPosStake =>
        /\ UltimoQualificado(aposta_extraida.profit, 10, None)
        /\ aposta_extraida.profit # None =>
              /\ Distante(Val(aposta_extraida.profit), aposta_extraida.stake, 10)
              /\ Distante(Val(aposta_extraida.profit), aposta_extraida.odd, 10)

\* C23 (amended): when the post-stake search yields no profit, profit is the
\* last decimal number of the leg text that is below 1000 and not equal to
\* the stake nor to the odd, however close to them it is; when no number
\* qualifies, profit is what the post-stake search left, null or 0.0.
C23_FallbackSemTolerancia ==
    SemProfitPosStake =>
        \A resto \in {ProfitPosStake(texto_leg, aposta_extraida.stake)} :
            UltimoQualificado(aposta_extraida.profit, 1, resto)

\* The fallback took a number that is less than 0.01 away from the odd.
C23_Witness ==
    /\ SemProfitPosStake
    /\ aposta_extraida.profit # None /\ aposta_extraida.odd # None
    /\ aposta_extraida.profit # aposta_extraida.odd
    /\ ~Distante(Val(aposta_extraida.profit), aposta_extraida.odd, 10)

(***************************************************************************)
(* Claims about the slot assignment and the stop decision (Spec).          *)
(***************************************************************************)
\* The step of lines 366-385 for one page.
PassoDeMapeamento == pc = "map" /\ pc' # "map"

\* teamA, teamB, bet1.house and bet2.house of the record are all non-empty.
TimesECasas(d) ==
    /\ TruthyStr(d.teamA) /\ TruthyStr(d.teamB)
    /\ TruthyStr(d.bet1.house) /\ TruthyStr(d.bet2.house)

\* The number of valid legs of page p.
ValidasDaPagina(p) == Cardinality({k \in DOMAIN hist[p].validas : hist[p].validas[k]})

\* C24: when three or more valid legs were found on a page, bet3.house is
\* non-empty after the slot assignment of that page; and the page scan stops
\* after a page exactly when teamA, teamB, bet1.house and bet2.house are all
\* non-empty, whatever the number of legs of the page.
C24_TerceiraCasaNuncaDecide ==
    [][PassoDeMapeamento =>
          /\ Len(apostas_encontradas) >= 3 => TruthyStr(dados'.bet3.house)
          /\ (pc' = "print") <=> TimesECasas(dados')
          /\ (pc' = "loop") <=> ~TimesECasas(dados')]_vars

\* A page with three valid legs has just ended the scan.
C24_Witness ==
    /\ pc = "print" /\ erro = "" /\ hist # << >>
    /\ hist[Len(hist)].pronto
    /\ ValidasDaPagina(Len(hist)) >= 3
    /\ TruthyStr(dados.bet3.house) /\ TimesECasas(dados)

(***************************************************************************)
(* Claims about the content the reassembler keeps (SpecLaco).              *)
(***************************************************************************)
LinhaBruta(a) == Strip(lines_pagina[a])

\* Logical line k is raw line origem[k] alone.
DeUmaLinha(k) ==
    /\ LinhaBruta(origem[k]) # ""
    /\ lines_processadas[k] = LinhaBruta(origem[k])

\* Logical line k is raw line origem[k] followed by the raw line after it.
DeDuasLinhas(k) ==
    /\ origem[k] + 1 <= Len(lines_pagina)
    /\ LinhaBruta(origem[k]) # "" /\ LinhaBruta(origem[k] + 1) # ""
    /\ lines_processadas[k] = LinhaBruta(origem[k]) \o " " \o LinhaBruta(origem[k] + 1)

\* The last raw line that went into logical line k.
FimDaLinha(k) == IF DeDuasLinhas(k) THEN origem[k] + 1 ELSE origem[k]

\* The raw lines from a to b are blank.
SoVazias(a, b) == \A r \in a..b : r \in DOMAIN lines_pagina => LinhaBruta(r) = ""

\* C25: every logical line is one non-blank raw line or two consecutive ones;
\* the logical lines take the raw lines in order, each non-blank raw line
\* going into exactly one logical line (so a line appended to another one is
\* never extended itself); and the words of the text returned are the words
\* of the input text, in the same order.
C25_ConteudoPreservado ==
    fase \in {"laco", "fim"} =>
        /\ Len(origem) = Len(lines_processadas)
        /\ \A k \in DOMAIN lines_processadas :
              /\ DeUmaLinha(k) \/ DeDuasLinhas(k)
              /\ SoVazias((IF k = 1 THEN 0 ELSE FimDaLinha(k - 1)) + 1, origem[k] - 1)
              /\ FimDaLinha(k) < i_laco
        /\ SoVazias((IF origem = << >> THEN 0 ELSE FimDaLinha(Len(origem))) + 1, i_laco - 1)
        /\ fase = "fim" =>
              /\ i_laco > Len(lines_pagina)
              /\ SplitWs(Val(texto_processado)) = SplitWs(Join(lines_pagina, "\n"))

\* A text was returned in which a line made of two raw lines follows a
\* skipped blank line.
C25_Witness ==
    /\ fase = "fim" /\ texto_processado # None
    /\ \E k \in DOMAIN lines_processadas :
          /\ DeDuasLinhas(k)
          /\ origem[k] > 1 /\ LinhaBruta(origem[k] - 1) = ""

(***************************************************************************)
(* Claims about the slots a page leaves alone (Spec).                      *)
(***************************************************************************)
\* The step of lines 103-106 for a page whose text is empty.
PassoDePaginaVazia ==
    /\ pc = "loop" /\ Len(hist') = Len(hist) + 1
    /\ hist'[Len(hist')].texto = "vazio" /\ ~hist'[Len(hist')].excecao

\* C26: inside extrair_dados_pdf a slot changes only in the slot assignment
\* of a page that has a leg for it, so a page with k < 3 valid legs leaves
\* bet(k+1)..bet3 as they were before the page and gives bet1..betk the
\* fields of its legs; a page with an empty text leaves the whole record as
\* it is and takes the scan back to the head of the page loop.
C26_SlotsSemLegIntactos ==
    [][/\ \A n \in 1..3 :
             (pc \in {"loop", "cab", "legs", "map", "except"}
                 /\ dados'[Slots[n]] # dados[Slots[n]]) =>
                 (PassoDeMapeamento /\ n <= Len(apostas_encontradas))
       /\ PassoDeMapeamento =>
             \A n \in 1..3 :
                 IF n <= Len(apostas_encontradas)
                 THEN \A k \in BetKeys : dados'[Slots[n]][k] = apostas_encontradas[n][k]
                 ELSE dados'[Slots[n]] = dados[Slots[n]]
       /\ PassoDePaginaVazia => (dados' = dados /\ pc' = "loop" /\ ret' = ret)]_vars

\* The second page gave one valid leg: bet1 holds it and bet2 still holds
\* the second leg of the first page.
C26_Witness ==
    /\ Len(hist) = 2 /\ hist[1].pronto /\ hist[2].pronto
    /\ ValidasDaPagina(1) = 2 /\ ValidasDaPagina(2) = 1
    /\ Len(detectadas) = 3
    /\ dados.bet1 = detectadas[3] /\ dados.bet2 = detectadas[2]
    /\ detectadas[3] # detectadas[1]
    /\ dados.bet3 = bet_vazia
====
